---- MODULE Spec2Model ----
(***************************************************************************)
(* Model of the NIRF PDF extractors (ROHITH-chow06/nirf-working).         *)
(*                                                                         *)
(* Text is modelled as a sequence of tokens: a token is one character      *)
(* (digit, comma, space, line break, bracket, ...) or a chunk of           *)
(* characters that no operation of the program looks inside.  The Python   *)
(* value None is the one-token string None.  List positions are Python's   *)
(* (0-based); NotFound stands for the ValueError of list.index.            *)
(* Percentages are kept in hundredths of a percent (4500 is 45.0).         *)
(***************************************************************************)
EXTENDS Integers, Sequences, FiniteSets, TLC

VARIABLES extractor, pc, pageNo, tableNo, page, tablesLeft, previous_page_text,
          data, table_found, last, outcomes, capital_exp, operational_exp, output, messages,
          full_time_grads, part_time_grads, years, sponsored_data, consultancy_data,
          report_pc, master_pos, report_data, returned, final_report_df, college_name, college_code,
          tab, batch_pc, pdf_links, link_pos, pdf_files_to_process, all_college_reports,
          sheet_name, safe_sheet_name,
          driver, driver_pc, n_docs, doc_pos, ext_pos, handle, calls, results, errors,
          first_page_text, identity, amount, formatted

period_vars == <<full_time_grads, part_time_grads, years, sponsored_data, consultancy_data>>

extract_vars == <<extractor, pc, pageNo, tableNo, page, tablesLeft, previous_page_text,
                  data, table_found, last, outcomes, capital_exp, operational_exp, output, messages,
                  period_vars>>

report_vars == <<report_pc, master_pos, report_data, returned, final_report_df, college_name, college_code>>

batch_vars == <<tab, batch_pc, pdf_links, link_pos, pdf_files_to_process, all_college_reports>>

sheet_vars == <<sheet_name, safe_sheet_name>>

driver_vars == <<driver, driver_pc, n_docs, doc_pos, ext_pos, handle, calls, results, errors>>

identity_vars == <<first_page_text, identity>>

currency_vars == <<amount, formatted>>

vars == <<extract_vars, report_vars, batch_vars, sheet_vars, driver_vars, identity_vars, currency_vars>>

\* ------------------------------------------------------------- bounds
MaxPages == 2      \* pages of one document
MaxTables == 2     \* tables of one document

\* ------------------------------------------------------------- strings
None == <<"<None>">>
NotFound == 0 - 1
Digits == {"0", "1", "2", "3", "4", "5", "6", "7", "8", "9"}
Whitespace == {" ", "\n"}

Truthy(cell) == cell # None /\ cell # <<>>

Replace(s, a, b) == [i \in DOMAIN s |-> IF s[i] = a THEN b ELSE s[i]]

RemoveTok(s, a) == SelectSeq(s, LAMBDA t : t # a)

RECURSIVE LStrip(_)
LStrip(s) == IF s # <<>> /\ Head(s) \in Whitespace THEN LStrip(Tail(s)) ELSE s

RECURSIVE RStrip(_)
RStrip(s) ==
    IF s # <<>> /\ s[Len(s)] \in Whitespace THEN RStrip(SubSeq(s, 1, Len(s) - 1)) ELSE s

Strip(s) == RStrip(LStrip(s))

IsDigit(s) == s # <<>> /\ \A i \in DOMAIN s : s[i] \in Digits

DigitVal(d) ==
    CASE d = "0" -> 0 [] d = "1" -> 1 [] d = "2" -> 2 [] d = "3" -> 3 [] d = "4" -> 4
      [] d = "5" -> 5 [] d = "6" -> 6 [] d = "7" -> 7 [] d = "8" -> 8 [] d = "9" -> 9

RECURSIVE DigitsValue(_)
DigitsValue(s) ==
    IF s = <<>> THEN 0 ELSE 10 * DigitsValue(SubSeq(s, 1, Len(s) - 1)) + DigitVal(s[Len(s)])

\* Python's int(str): surrounding whitespace is dropped, one sign is allowed,
\* the rest must be decimal digits; anything else raises ValueError.
ParseInt(s) ==
    LET t == Strip(s)
        signed == t # <<>> /\ Head(t) \in {"-", "+"}
        body == IF signed THEN Tail(t) ELSE t
    IN  IF IsDigit(body)
        THEN [ok |-> TRUE, val |-> IF signed /\ Head(t) = "-" THEN 0 - DigitsValue(body)
                                   ELSE DigitsValue(body)]
        ELSE [ok |-> FALSE, val |-> 0]

\* needle occurs in s as a contiguous run (Python's `needle in s` on strings)
Contains(s, needle) ==
    \E i \in 0..(Len(s) - Len(needle)) : SubSeq(s, i + 1, i + Len(needle)) = needle

\* list.index(x, start): first Python position >= start holding x, else ValueError
ListIndex(l, x, start) ==
    IF \E i \in (start + 1)..Len(l) : l[i] = x
    THEN (CHOOSE i \in (start + 1)..Len(l) : l[i] = x /\ \A j \in (start + 1)..(i - 1) : l[j] # x) - 1
    ELSE NotFound

InRow(row, i) == i >= 0 /\ i < Len(row)

\* ------------------------------------------------------------- ratios
\* round(a / b, 0) for b > 0, ties to the even neighbour (Python's round)
RoundDiv(a, b) ==
    LET q == a \div b
        r == a % b
    IN  IF 2 * r < b THEN q
        ELSE IF 2 * r > b THEN q + 1
        ELSE IF q % 2 = 0 THEN q ELSE q + 1

\* a ratio cut off after two decimals instead of rounded
Pct_truncated(n, d) == IF d > 0 THEN (10000 * n) \div d ELSE 0

\* round((n / d) * 100, 2) if d > 0 else 0.0, in hundredths of a percent
Pct(n, d) == IF d > 0 THEN RoundDiv(10000 * n, d) ELSE 0

\* ------------------------------------------------------------- pages
\* A page is its text lines, top to bottom, each with its vertical position.
ExtractText(p) == [i \in DOMAIN p.text |-> p.text[i].s]

\* a crop that keeps the line at the table's own position
CropText_inclusive(p, y) == ExtractText([text |-> SelectSeq(p.text, LAMBDA l : l.y <= y)])

\* page.crop((0, 0, page.width, y)).extract_text(): the lines above y
CropText(p, y) == ExtractText([text |-> SelectSeq(p.text, LAMBDA l : l.y < y)])

\* the strings the label pattern UG|PG \[\d+ Years? Program\(s\)\] matches
LabelStrings == {"UG [4 Years Program(s)]", "PG [2 Years Program(s)]", "UG [1 Year Program(s)]"}

FindLabels(text) == SelectSeq(text, LAMBDA s : s \in LabelStrings)

TopThreshold == 150

\* a threshold test that admits the threshold itself
NearTop_inclusive(table_y_position) == table_y_position <= TopThreshold

\* `table_y_position < 150`: the table may continue from the previous page
NearTop(table_y_position) == table_y_position < TopThreshold

\* matches[0]
FirstMatch(matches) == matches[1]

\* matches[-1]
LastMatch(matches) == matches[Len(matches)]

find_program_name_for_table(p, table_y_position, prev_text) ==
    LET text_above_table == CropText(p, table_y_position)
        above == FindLabels(text_above_table)
        before == FindLabels(prev_text)
    IN  IF text_above_table # <<>> /\ above # <<>> THEN LastMatch(above)
        ELSE IF NearTop(table_y_position) /\ prev_text # <<>> /\ before # <<>>
             THEN LastMatch(before)
        ELSE "Unknown Program"

\* re.search(r"(UG|PG) \[(\d+)", program_header) -> "<type>-<years>", "" when no match
prog_name(program_header) ==
    CASE program_header = "UG [4 Years Program(s)]" -> "UG-4"
      [] program_header = "PG [2 Years Program(s)]" -> "PG-2"
      [] program_header = "UG [1 Year Program(s)]" -> "UG-1"
      [] OTHER -> ""

\* ------------------------------------------------------------- headers
AY == <<"Academic", " ", "Year">>
ADM == <<"No. of first year students", " ", "admitted in the year">>
LAT == <<"No. of students admitted through", " ", "Lateral entry">>
GRAD == <<"No. of students graduating in", " ", "minimum stipulated time">>
PLACED == <<"No. of students", " ", "placed">>
MED == <<"Median salary", " ", "of placed graduates", " ", "per annum(Amount in Rs.)">>
HS == <<"No. of students selected for", " ", "Higher Studies">>

\* a header taken as it is, line breaks kept
header_row_raw(row) == [i \in DOMAIN row |-> IF Truthy(row[i]) THEN row[i] ELSE <<>>]

\* [str(cell).replace('\n', ' ') if cell else '' for cell in table_data[0]]
header_row(row) == [i \in DOMAIN row |-> IF Truthy(row[i]) THEN Replace(row[i], "\n", " ") ELSE <<>>]

\* a signature test by substring instead of by whole cell
HasAll_substring(header, required_cols) ==
    \A i \in DOMAIN required_cols : \E j \in DOMAIN header : Contains(header[j], required_cols[i])

\* all(col in header_row for col in required_cols): each is a whole header cell
HasAll(header, required_cols) == \A i \in DOMAIN required_cols : \E j \in DOMAIN header : header[j] = required_cols[i]

\* int(row[col].replace(',', '')) with the exception it raises, if any
ReadInt(row, col) ==
    IF ~InRow(row, col) THEN [st |-> "IndexError", val |-> 0]
    ELSE IF row[col + 1] = None THEN [st |-> "AttributeError", val |-> 0]
    ELSE LET n == ParseInt(RemoveTok(row[col + 1], ","))
         IN  IF n.ok THEN [st |-> "ok", val |-> n.val] ELSE [st |-> "ValueError", val |-> 0]

\* the first exception raised by a sequence of evaluations, "ok" if none
FirstRaised(sts) ==
    IF \E i \in DOMAIN sts : sts[i] # "ok"
    THEN sts[CHOOSE i \in DOMAIN sts : sts[i] # "ok" /\ \A j \in 1..(i - 1) : sts[j] = "ok"]
    ELSE "ok"

Caught == {"ValueError", "IndexError", "TypeError"}

\* what processing one table gave: the records appended, whether the context
\* resolver was called and what it returned, and the uncaught exception if any
Result(outcome, called, program_header, recs, raised) ==
    [outcome |-> outcome, called |-> called, program_header |-> program_header,
     recs |-> recs, raised |-> raised]

Skipped(outcome, called, program_header) == Result(outcome, called, program_header, <<>>, FALSE)

\* the rows of one table: a row whose exception is caught is dropped, an
\* uncaught exception leaves the row loop (and the extractor)
Collect(res, program_header) ==
    LET good == SelectSeq(res, LAMBDA r : r.st = "ok")
    IN  IF \E i \in DOMAIN res : res[i].st \notin (Caught \cup {"ok", "skip"})
        THEN Result("raised", TRUE, program_header, <<>>, TRUE)
        ELSE Result("rows", TRUE, program_header, [i \in DOMAIN good |-> good[i].rec], FALSE)

NoRec == [st |-> "skip"]

\* ------------------------------------------------------------- placement
placement_required_cols == <<GRAD, PLACED, HS>>

placement_row(row, grad_year_col, graduated_col, placed_col, higher_studies_col, prog) ==
    LET graduated == ReadInt(row, graduated_col)
        placed == ReadInt(row, placed_col)
        higher_studies == ReadInt(row, higher_studies_col)
        st == FirstRaised(<<IF InRow(row, grad_year_col) THEN "ok" ELSE "IndexError",
                            graduated.st, placed.st, higher_studies.st>>)
    IN  IF st # "ok" THEN [st |-> st]
        ELSE [st |-> "ok",
              rec |-> [ProgramName |-> prog,
                       GraduationYear |-> row[grad_year_col + 1],
                       Graduated |-> graduated.val,
                       Placed |-> placed.val,
                       PlacementPct |-> Pct(placed.val, graduated.val),
                       HigherStudies |-> higher_studies.val,
                       HigherStudiesPct |-> Pct(higher_studies.val, graduated.val)]]

placement_table(t, p, prev_text) ==
    LET table_data == t.data
        h == header_row(table_data[1])
        program_header == find_program_name_for_table(p, t.y, prev_text)
        prog == prog_name(program_header)
        grad_year_col == ListIndex(h, AY, 1)
        graduated_col == ListIndex(h, GRAD, 0)
        placed_col == ListIndex(h, PLACED, 0)
        higher_studies_col == ListIndex(h, HS, 0)
    IN  IF Len(table_data) < 2 THEN Skipped("short", FALSE, "")
        ELSE IF ~HasAll(h, placement_required_cols) THEN Skipped("nosig", FALSE, "")
        ELSE IF prog = "" THEN Skipped("noprog", TRUE, program_header)
        ELSE IF NotFound \in {grad_year_col, graduated_col, placed_col, higher_studies_col}
             THEN Skipped("nofield", TRUE, program_header)
        ELSE Collect([i \in 1..(Len(table_data) - 1) |->
                        placement_row(table_data[i + 1], grad_year_col, graduated_col,
                                      placed_col, higher_studies_col, prog)],
                     program_header)

\* ------------------------------------------------------------- university exam
exam_required_cols == <<ADM, GRAD>>

\* the lateral-entry cell read without asking whether the column exists:
\* position -1 is the last cell of the row
lateral_read_unguarded(row, lateral_entry_col) ==
    LET col == IF lateral_entry_col = NotFound THEN Len(row) - 1 ELSE lateral_entry_col
    IN  IF ~InRow(row, col) THEN [st |-> "IndexError", val |-> 0]
        ELSE IF Truthy(row[col + 1]) /\ IsDigit(Strip(row[col + 1])) THEN ReadInt(row, col)
        ELSE [st |-> "ok", val |-> 0]

\* lateral_entry_col != -1 and row[col] and row[col].strip().isdigit()
lateral_read(row, lateral_entry_col) ==
    IF lateral_entry_col = NotFound THEN [st |-> "ok", val |-> 0]
    ELSE IF ~InRow(row, lateral_entry_col) THEN [st |-> "IndexError", val |-> 0]
    ELSE IF Truthy(row[lateral_entry_col + 1]) /\ IsDigit(Strip(row[lateral_entry_col + 1]))
         THEN ReadInt(row, lateral_entry_col)
    ELSE [st |-> "ok", val |-> 0]

exam_row(row, admit_year_col, admitted_col, grad_year_col, graduated_col, lateral_entry_col, prog) ==
    LET admitted == ReadInt(row, admitted_col)
        graduated == ReadInt(row, graduated_col)
        lateral_admitted == lateral_read(row, lateral_entry_col)
        st == FirstRaised(<<IF InRow(row, admit_year_col) THEN "ok" ELSE "IndexError",
                            IF InRow(row, grad_year_col) THEN "ok" ELSE "IndexError",
                            admitted.st, graduated.st, lateral_admitted.st>>)
        total_admitted == admitted.val + lateral_admitted.val
    IN  IF st # "ok" THEN [st |-> st]
        ELSE [st |-> "ok",
              rec |-> [ProgramName |-> prog,
                       AdmitYear |-> row[admit_year_col + 1],
                       GraduationYear |-> row[grad_year_col + 1],
                       TotalAdmitted |-> total_admitted,
                       Graduated |-> graduated.val,
                       Percentage |-> Pct(graduated.val, total_admitted)]]

exam_table(t, p, prev_text) ==
    LET table_data == t.data
        h == header_row(table_data[1])
        program_header == find_program_name_for_table(p, t.y, prev_text)
        prog == prog_name(program_header)
        admit_year_col == ListIndex(h, AY, 0)
        admitted_col == ListIndex(h, ADM, 0)
        grad_year_col == IF admit_year_col = NotFound THEN NotFound
                         ELSE ListIndex(h, AY, admit_year_col + 1)
        graduated_col == ListIndex(h, GRAD, 0)
        lateral_entry_col == ListIndex(h, LAT, 0)
    IN  IF Len(table_data) < 2 THEN Skipped("short", FALSE, "")
        ELSE IF ~HasAll(h, exam_required_cols) THEN Skipped("nosig", FALSE, "")
        ELSE IF prog = "" THEN Skipped("noprog", TRUE, program_header)
        ELSE IF NotFound \in {admit_year_col, admitted_col, grad_year_col, graduated_col}
             THEN Skipped("nofield", TRUE, program_header)
        ELSE Collect([i \in 1..(Len(table_data) - 1) |->
                        exam_row(table_data[i + 1], admit_year_col, admitted_col, grad_year_col,
                                 graduated_col, lateral_entry_col, prog)],
                     program_header)

\* ------------------------------------------------------------- median salary
SalaryChars == Digits \cup {","}

RECURSIVE TakeRun(_)
TakeRun(s) == IF s # <<>> /\ Head(s) \in SalaryChars THEN <<Head(s)>> \o TakeRun(Tail(s)) ELSE <<>>

\* re.search(r'(\d[\d,]+)', s): the first digit followed by a digit or comma
\* starts the match, which runs on over digits and commas; <<>> when no match
salary_str(s) ==
    LET starts == {i \in 1..(Len(s) - 1) : s[i] \in Digits /\ s[i + 1] \in SalaryChars}
    IN  IF starts = {} THEN <<>>
        ELSE LET i == CHOOSE k \in starts : \A j \in starts : k <= j
             IN  TakeRun(SubSeq(s, i, Len(s)))

salary_row(row, grad_year_col, salary_col, prog) ==
    LET st == FirstRaised(<<IF InRow(row, grad_year_col) THEN "ok" ELSE "IndexError",
                            IF InRow(row, salary_col) THEN "ok" ELSE "IndexError">>)
    IN  IF st # "ok" THEN [st |-> st]
        ELSE LET m == salary_str(row[salary_col + 1])
             IN  IF m = <<>> THEN NoRec
                 ELSE [st |-> "ok",
                       rec |-> [ProgramName |-> prog,
                                AcademicYear |-> row[grad_year_col + 1],
                                MedianSalary |-> ParseInt(RemoveTok(m, ",")).val]]

FirstContaining(h, needle) ==
    IF \E i \in DOMAIN h : Contains(h[i], needle)
    THEN (CHOOSE i \in DOMAIN h : Contains(h[i], needle) /\ \A j \in 1..(i - 1) : ~Contains(h[j], needle)) - 1
    ELSE NotFound

salary_table(t, p, prev_text) ==
    LET table_data == t.data
        h == header_row(table_data[1])
        program_header == find_program_name_for_table(p, t.y, prev_text)
        prog == prog_name(program_header)
        grad_year_col == ListIndex(h, AY, 1)
        salary_col == FirstContaining(h, <<"Median salary">>)
    IN  IF Len(table_data) < 2 THEN Skipped("short", FALSE, "")
        ELSE IF FirstContaining(h, <<"Median salary", " ", "of placed graduates">>) = NotFound
             THEN Skipped("nosig", FALSE, "")
        ELSE IF prog = "" THEN Skipped("noprog", TRUE, program_header)
        ELSE IF NotFound \in {grad_year_col, salary_col} THEN Skipped("nofield", TRUE, program_header)
        ELSE Collect([i \in 1..(Len(table_data) - 1) |->
                        salary_row(table_data[i + 1], grad_year_col, salary_col, prog)],
                     program_header)

\* ------------------------------------------------------------- student strength table
PROGRAMS == <<"(All programs of all years)">>
MALE == <<"No. of Male", " ", "Students">>
FEMALE == <<"No. of Female", " ", "Students">>
TOTAL == <<"Total", " ", "Students">>
OUTSTATE == <<"Outside State", " ", "(Including male & female)">>
OUTCOUNTRY == <<"Outside Country", " ", "(Including male & female)">>
EB == <<"Economically Backward", " ", "(Including male & female)">>
SC == <<"Socially Challenged", " ", "(SC+ST+OBC Including male & female)">>
GOVFEE == <<"No. of students receiving full tuition fee reimbursement", " ", "from the State and Central Government">>
INSTFEE == <<"No. of students receiving full tuition fee reimbursement", " ", "from Institution Funds">>
PVTFEE == <<"No. of students receiving full tuition fee reimbursement", " ", "from the Private Bodies">>
NOFEE == <<"No. of students who are not receiving", " ", "full tuition fee reimbursement">>

StartsWith(s, prefix) == Len(s) >= Len(prefix) /\ SubSeq(s, 1, Len(prefix)) = prefix

\* row[col].replace(',', '').strip() with the exception it raises, if any
ReadStr(row, col) ==
    IF ~InRow(row, col) THEN [st |-> "IndexError", str |-> <<>>]
    ELSE IF row[col + 1] = None THEN [st |-> "AttributeError", str |-> <<>>]
    ELSE [st |-> "ok", str |-> Strip(RemoveTok(row[col + 1], ","))]

\* int(row[col].replace(',', '').strip())
ReadStrInt(row, col) ==
    LET r == ReadStr(row, col)
    IN  IF r.st # "ok" THEN [st |-> r.st, val |-> 0]
        ELSE IF ParseInt(r.str).ok THEN [st |-> "ok", val |-> ParseInt(r.str).val]
        ELSE [st |-> "ValueError", val |-> 0]

\* the row label test shared by the three extractors: "proceed" for a UG/PG
\* row, "skip" for any other row, "IndexError" (uncaught) for a row without cells
program_row(row) ==
    IF ~InRow(row, 0) THEN "IndexError"
    ELSE IF ~Truthy(row[1]) \/ Strip(row[1]) = <<>> THEN "skip"
    ELSE LET program_name == Strip(Replace(row[1], "\n", " "))
         IN  IF StartsWith(program_name, <<"UG [">>) \/ StartsWith(program_name, <<"PG [">>)
             THEN "proceed" ELSE "skip"

program_name_of(row) == Strip(Replace(row[1], "\n", " "))

\* rows of a strength table: exceptions of the label test are outside the try
CollectStrength(labels, res) ==
    IF \E i \in DOMAIN res : labels[i] = "IndexError"
                             \/ (labels[i] = "proceed" /\ res[i].st \notin (Caught \cup {"ok", "skip"}))
    THEN Result("raised", FALSE, "", <<>>, TRUE)
    ELSE LET idx == SelectSeq([i \in DOMAIN res |-> i],
                              LAMBDA i : labels[i] = "proceed" /\ res[i].st = "ok")
         IN  Result("rows", FALSE, "", [k \in DOMAIN idx |-> res[idx[k]].rec], FALSE)

ratio_row(row, female_col_idx, total_col_idx) ==
    LET total_students_str == ReadStr(row, total_col_idx)
        female_students_str == ReadStr(row, female_col_idx)
        st == FirstRaised(<<total_students_str.st, female_students_str.st>>)
        total_students == ParseInt(total_students_str.str)
        female_students == ParseInt(female_students_str.str)
    IN  IF st # "ok" THEN [st |-> st]
        ELSE IF total_students_str.str = <<>> \/ female_students_str.str = <<>> THEN NoRec
        ELSE IF ~total_students.ok \/ ~female_students.ok THEN [st |-> "ValueError"]
        ELSE [st |-> "ok",
              rec |-> [Program |-> program_name_of(row),
                       TotalStudents |-> total_students.val,
                       FemaleStudents |-> female_students.val,
                       FemaleRatio |-> Pct(female_students.val, total_students.val)]]

\* a signature that does not ask for the male column
ratio_matches_without_male(header) == HasAll(header, <<FEMALE, TOTAL>>)

\* 'No. of Male Students' in header and 'No. of Female Students' in header and 'Total Students' in header
ratio_matches(header) == HasAll(header, <<MALE, FEMALE, TOTAL>>)

ratio_table(t) ==
    LET header == header_row(t.data[1])
        rows == Tail(t.data)
    IN  IF t.data = <<>> THEN Skipped("empty", FALSE, "")
        ELSE IF ~ratio_matches(header) THEN Skipped("nosig", FALSE, "")
        ELSE CollectStrength([i \in DOMAIN rows |-> program_row(rows[i])],
                             [i \in DOMAIN rows |->
                                IF program_row(rows[i]) = "proceed"
                                THEN ratio_row(rows[i], ListIndex(header, FEMALE, 0),
                                               ListIndex(header, TOTAL, 0))
                                ELSE NoRec])

location_required_headers == <<TOTAL, OUTSTATE, OUTCOUNTRY>>

location_row(row, total_col_idx, outside_state_col_idx, outside_country_col_idx) ==
    LET total_students_str == ReadStr(row, total_col_idx)
        outside_state_str == ReadStr(row, outside_state_col_idx)
        outside_country_str == ReadStr(row, outside_country_col_idx)
        st == FirstRaised(<<total_students_str.st, outside_state_str.st, outside_country_str.st>>)
        total_students == ParseInt(total_students_str.str)
        outside_state == ParseInt(outside_state_str.str)
        outside_country == ParseInt(outside_country_str.str)
    IN  IF st # "ok" THEN [st |-> st]
        ELSE IF <<>> \in {total_students_str.str, outside_state_str.str, outside_country_str.str}
             THEN NoRec
        ELSE IF ~total_students.ok \/ ~outside_state.ok \/ ~outside_country.ok
             THEN [st |-> "ValueError"]
        ELSE [st |-> "ok",
              rec |-> [Program |-> program_name_of(row),
                       TotalStudents |-> total_students.val,
                       OutsideState |-> outside_state.val,
                       OutsideStatePct |-> Pct(outside_state.val, total_students.val),
                       OutsideCountry |-> outside_country.val,
                       OutsideCountryPct |-> Pct(outside_country.val, total_students.val)]]

location_table(t) ==
    LET header == header_row(t.data[1])
        rows == Tail(t.data)
    IN  IF t.data = <<>> THEN Skipped("empty", FALSE, "")
        ELSE IF ~HasAll(header, location_required_headers) THEN Skipped("nosig", FALSE, "")
        ELSE CollectStrength([i \in DOMAIN rows |-> program_row(rows[i])],
                             [i \in DOMAIN rows |->
                                IF program_row(rows[i]) = "proceed"
                                THEN location_row(rows[i], ListIndex(header, TOTAL, 0),
                                                  ListIndex(header, OUTSTATE, 0),
                                                  ListIndex(header, OUTCOUNTRY, 0))
                                ELSE NoRec])

support_required_headers == <<EB, SC, GOVFEE, INSTFEE, PVTFEE, NOFEE>>

support_row(row, header) ==
    LET v == [k \in 1..6 |-> ReadStrInt(row, ListIndex(header, support_required_headers[k], 0))]
        st == FirstRaised([k \in 1..6 |-> v[k].st])
    IN  IF st # "ok" THEN [st |-> st]
        ELSE [st |-> "ok",
              rec |-> [Program |-> program_name_of(row),
                       EconomicallyBackward |-> v[1].val,
                       SociallyChallenged |-> v[2].val,
                       ReimbursedByGovt |-> v[3].val,
                       ReimbursedByInstitution |-> v[4].val,
                       ReimbursedByPrivateBodies |-> v[5].val,
                       NotReimbursed |-> v[6].val]]

support_table(t) ==
    LET header == header_row(t.data[1])
        rows == Tail(t.data)
    IN  IF t.data = <<>> THEN Skipped("empty", FALSE, "")
        ELSE IF ~HasAll(header, support_required_headers) THEN Skipped("nosig", FALSE, "")
        ELSE CollectStrength([i \in DOMAIN rows |-> program_row(rows[i])],
                             [i \in DOMAIN rows |->
                                IF program_row(rows[i]) = "proceed"
                                THEN support_row(rows[i], header)
                                ELSE NoRec])

\* ------------------------------------------------------------- expenditure
EmptyDict == [k \in {} |-> 0]
Get(d, k, default) == IF k \in DOMAIN d THEN d[k] ELSE default
Put(d, k, v) == [x \in (DOMAIN d) \cup {k} |-> IF x = k THEN v ELSE d[x]]

YearTokens == {"2020-21", "2021-22", "2022-23"}

\* re.match(r'\d{4}-\d{2}', str(cell)): the cell starts with a year
YearLike(cell) == cell # <<>> /\ Head(cell) \in YearTokens

\* str.lower() on the words of row titles and keywords
LowerTok(t) ==
    CASE t = "Library" -> "library"
      [] t = "LIBRARY" -> "library"
      [] t = "Salaries" -> "salaries"
      [] t = "SALARIES" -> "salaries"
      [] t = "New Equipment" -> "new equipment"
      [] t = "Engineering Workshops" -> "engineering workshops"
      [] t = "creation of Capital Assets" -> "creation of capital assets"
      [] t = "Maintenance of Academic Infrastructure" -> "maintenance of academic infrastructure"
      [] t = "Seminars" -> "seminars"
      [] OTHER -> t

Lower(s) == [i \in DOMAIN s |-> LowerTok(s[i])]

capital_keys == {<<"Library">>, <<"New Equipment">>, <<"Engineering Workshops">>, <<"creation of Capital Assets">>}
operational_keys == {<<"Salaries">>, <<"Maintenance of Academic Infrastructure">>, <<"Seminars">>}

RECURSIVE JoinSpace(_)
JoinSpace(cells) ==
    IF cells = <<>> THEN <<>>
    ELSE IF Len(cells) = 1 THEN cells[1]
    ELSE cells[1] \o <<" ">> \o JoinSpace(Tail(cells))

\* " ".join([str(row[0]) for row in table if row and row[0]])
first_col_text(table) ==
    LET rows == SelectSeq(table, LAMBDA row : row # <<>> /\ Truthy(row[1]))
    IN  JoinSpace([i \in DOMAIN rows |-> rows[i][1]])

is_capital_table(table) == Contains(first_col_text(table), <<"Capital Expenditure">>)
is_operational_table(table) == Contains(first_col_text(table), <<"Operational Expenditure">>)

\* a table naming both categories treated as both
expenditure_targets_both(table) ==
    (IF is_capital_table(table) THEN {"capital"} ELSE {})
    \cup (IF is_operational_table(table) THEN {"operational"} ELSE {})

\* if is_capital_table: capital_exp, capital_keys / elif is_operational_table: ...
expenditure_targets(table) ==
    IF is_capital_table(table) THEN {"capital"}
    ELSE IF is_operational_table(table) THEN {"operational"}
    ELSE {}

\* the first row holding a year-like cell, cleaned like a header; <<>> if none
year_header(table) ==
    IF \E i \in DOMAIN table : \E j \in DOMAIN table[i] : YearLike(table[i][j])
    THEN header_row(table[CHOOSE i \in DOMAIN table :
                              /\ \E j \in DOMAIN table[i] : YearLike(table[i][j])
                              /\ \A k \in 1..(i - 1) : \A j \in DOMAIN table[k] : ~YearLike(table[k][j])])
    ELSE <<>>

\* every digit of the cell, the note in brackets included
amount_all_digits(cell) == SelectSeq(cell, LAMBDA c : c \in Digits)

\* re.sub(r'[^0-9]', '', str(cell).split('(')[0].strip()): the digits before the first "("
amount_digits(cell) ==
    LET cut == IF \E i \in DOMAIN cell : cell[i] = "("
               THEN SubSeq(cell, 1, (CHOOSE i \in DOMAIN cell :
                                        cell[i] = "(" /\ \A j \in 1..(i - 1) : cell[j] # "(") - 1)
               ELSE cell
    IN  SelectSeq(Strip(cut), LAMBDA c : c \in Digits)

RECURSIVE add_years(_, _, _, _)
add_years(d, row, header, ys) ==
    IF ys = <<>> THEN d
    ELSE LET year == Head(ys)
             year_col_idx == ListIndex(header, year, 0)
             digits == amount_digits(row[year_col_idx + 1])
         IN  IF year_col_idx >= Len(row) \/ ~Truthy(row[year_col_idx + 1]) \/ digits = <<>>
             THEN add_years(d, row, header, Tail(ys))
             ELSE add_years(Put(d, year, Get(d, year, 0) + DigitsValue(digits)), row, header, Tail(ys))

title_matches(row, keys) ==
    /\ row # <<>>
    /\ Truthy(row[1])
    /\ \E key \in keys : Contains(Lower(Replace(row[1], "\n", " ")), Lower(key))

RECURSIVE add_rows(_, _, _, _, _)
add_rows(d, rows, header, ys, keys) ==
    IF rows = <<>> THEN d
    ELSE add_rows(IF title_matches(Head(rows), keys) THEN add_years(d, Head(rows), header, ys) ELSE d,
                  Tail(rows), header, ys, keys)

expenditure_outcome(table) ==
    IF Len(table) < 2 THEN "short"
    ELSE IF expenditure_targets(table) = {} THEN "nosig"
    ELSE IF year_header(table) = <<>> THEN "noheader"
    ELSE "rows"

\* the mapping of one category after the table
expenditure_after(d, category, keys, table) ==
    IF expenditure_outcome(table) = "rows" /\ category \in expenditure_targets(table)
    THEN add_rows(d, table, year_header(table), SelectSeq(year_header(table), YearLike), keys)
    ELSE d

\* ------------------------------------------------------------- expenditure output
\* numbers that may be means are fractions num / den
Number(n) == [num |-> n, den |-> 1]
AddNumbers(a, b) == [num |-> a.num * b.den + b.num * a.den, den |-> a.den * b.den]

DigitChar(d) == CHOOSE c \in Digits : DigitVal(c) = d

\* str(n) of a non-negative integer
RECURSIVE IntStr(_)
IntStr(n) == IF n < 10 THEN <<DigitChar(n)>> ELSE IntStr(n \div 10) \o <<DigitChar(n % 10)>>

RECURSIVE GroupTwos(_)
GroupTwos(rest) ==
    IF Len(rest) <= 2 THEN rest
    ELSE GroupTwos(SubSeq(rest, 1, Len(rest) - 2)) \o <<",">> \o SubSeq(rest, Len(rest) - 1, Len(rest))

\* the digits behind the sign, without separators
format_without_separators(number) == <<"₹", " ">> \o IntStr(number.num \div number.den)

format_indian_currency(number) ==
    LET str == IntStr(number.num \div number.den)
    IN  IF Len(str) <= 3 THEN <<"₹", " ">> \o str
        ELSE <<"₹", " ">> \o GroupTwos(SubSeq(str, 1, Len(str) - 3)) \o <<",">>
                 \o SubSeq(str, Len(str) - 2, Len(str))

\* the order of Python strings on the words that occur in period keys
TokRank(t) ==
    CASE t = " " -> 0
      [] t = "(Rs.)" -> 1
      [] t = "2013-14" -> 2
      [] t = "2014-15" -> 3
      [] t = "2015-16" -> 4
      [] t = "2016-17" -> 5
      [] t = "2017-18" -> 6
      [] t = "2018-19" -> 7
      [] t = "2019-20" -> 8
      [] t = "2020-21" -> 9
      [] t = "2021-22" -> 10
      [] t = "2022-23" -> 11
      [] OTHER -> 12

RECURSIVE StrLess(_, _)
StrLess(a, b) ==
    IF a = <<>> THEN b # <<>>
    ELSE IF b = <<>> THEN FALSE
    ELSE IF Head(a) = Head(b) THEN StrLess(Tail(a), Tail(b))
    ELSE TokRank(Head(a)) < TokRank(Head(b))

\* the keys in ascending order
RECURSIVE SortedForward(_)
SortedForward(S) ==
    IF S = {} THEN <<>>
    ELSE LET low == CHOOSE x \in S : \A y \in S \ {x} : StrLess(x, y)
         IN  <<low>> \o SortedForward(S \ {low})

\* sorted(list(keys), reverse=True)
RECURSIVE SortedReverse(_)
SortedReverse(S) ==
    IF S = {} THEN <<>>
    ELSE LET top == CHOOSE x \in S : \A y \in S \ {x} : StrLess(y, x)
         IN  <<top>> \o SortedReverse(S \ {top})

RECURSIVE DictSum(_)
DictSum(d) ==
    IF DOMAIN d = {} THEN 0
    ELSE LET k == CHOOSE k \in DOMAIN d : TRUE
         IN  d[k] + DictSum([x \in (DOMAIN d) \ {k} |-> d[x]])

\* the mean with every period of the report in the denominator
DictMean_all_years(d, other) ==
    IF DOMAIN d # {} THEN [num |-> DictSum(d), den |-> Cardinality((DOMAIN d) \cup (DOMAIN other))]
    ELSE Number(0)

\* np.mean(list(d.values())) if d else 0
DictMean(d, other) ==
    IF DOMAIN d # {} THEN [num |-> DictSum(d), den |-> Cardinality(DOMAIN d)] ELSE Number(0)

\* the period row of a year the operational amounts do not hold is left out
expenditure_period_rows_inner(cap, op) ==
    LET all_years == SortedReverse((DOMAIN cap) \cap (DOMAIN op))
    IN  [i \in DOMAIN all_years |->
            [SNo |-> i, AcademicYear |-> all_years[i],
             Capital |-> format_indian_currency(Number(cap[all_years[i]])),
             Operational |-> format_indian_currency(Number(op[all_years[i]])),
             Total |-> format_indian_currency(Number(cap[all_years[i]] + op[all_years[i]]))]]

expenditure_period_rows(cap, op) ==
    LET all_years == SortedReverse((DOMAIN cap) \cup (DOMAIN op))
    IN  [i \in DOMAIN all_years |->
            [SNo |-> i, AcademicYear |-> all_years[i],
             Capital |-> format_indian_currency(Number(Get(cap, all_years[i], 0))),
             Operational |-> format_indian_currency(Number(Get(op, all_years[i], 0))),
             Total |-> format_indian_currency(Number(Get(cap, all_years[i], 0) + Get(op, all_years[i], 0)))]]

AverageLabel == <<"**Average**">>

expenditure_average_row(cap, op) ==
    LET avg_cap == DictMean(cap, op)
        avg_op == DictMean(op, cap)
    IN  [SNo |-> 0, AcademicYear |-> AverageLabel,
         Capital |-> format_indian_currency(avg_cap),
         Operational |-> format_indian_currency(avg_op),
         Total |-> format_indian_currency(AddNumbers(avg_cap, avg_op))]

\* the rows the expenditure extractor returns
expenditure_rows(cap, op) ==
    IF (DOMAIN cap) \cup (DOMAIN op) = {} THEN <<>>
    ELSE Append(expenditure_period_rows(cap, op), expenditure_average_row(cap, op))

\* ------------------------------------------------------------- Ph.D graduated
PhdSignature == <<"No. of Ph.D students graduated">>

\* " ".join([" ".join(map(str, row)) for row in table])
table_text(table) == JoinSpace([i \in DOMAIN table |-> JoinSpace(table[i])])

\* the first row holding a year-like cell, line breaks replaced; <<>> if none
phd_header_row(table) ==
    IF \E i \in DOMAIN table : \E j \in DOMAIN table[i] : YearLike(table[i][j])
    THEN LET row == table[CHOOSE i \in DOMAIN table :
                            /\ \E j \in DOMAIN table[i] : YearLike(table[i][j])
                            /\ \A k \in 1..(i - 1) : \A j \in DOMAIN table[k] : ~YearLike(table[k][j])]
         IN  [j \in DOMAIN row |-> Replace(row[j], "\n", " ")]
    ELSE <<>>

\* years is assigned only when a header row is found; otherwise it keeps the
\* value an earlier table gave it
phd_years(table, ys) ==
    IF phd_header_row(table) # <<>> THEN SelectSeq(phd_header_row(table), YearLike) ELSE ys

\* int(row[i+1]) for the k-th year (i = k - 1), 0 when it raises
phd_cell(row, k) ==
    IF k + 1 > Len(row) \/ row[k + 1] = None THEN 0
    ELSE IF ParseInt(row[k + 1]).ok THEN ParseInt(row[k + 1]).val ELSE 0

RECURSIVE phd_set_years(_, _, _, _)
phd_set_years(d, row, ys, k) ==
    IF k > Len(ys) THEN d
    ELSE phd_set_years(Put(d, ys[k], phd_cell(row, k)), row, ys, k + 1)

\* the rows titled Full Time fill the full-time mapping, else those titled
\* Part Time the part-time mapping
RECURSIVE phd_fold_rows(_, _, _, _)
phd_fold_rows(d, rows, ys, title) ==
    IF rows = <<>> THEN d
    ELSE LET row == Head(rows)
             row_title == Strip(row[1])
             full == Contains(row_title, <<"Full Time">>)
             part == ~full /\ Contains(row_title, <<"Part Time">>)
             mine == IF title = "Full Time" THEN full ELSE part
         IN  phd_fold_rows(IF mine THEN phd_set_years(d, row, ys, 1) ELSE d, Tail(rows), ys, title)

phd_outcome(table, ys) ==
    IF Len(table) < 2 THEN "short"
    ELSE IF ~Contains(table_text(table), PhdSignature) THEN "nosig"
    ELSE IF phd_years(table, ys) = <<>> THEN "noyears"
    ELSE IF \E i \in DOMAIN table : table[i] = <<>> THEN "raised"
    ELSE "rows"

\* sum(row[year] for year in sorted_years): a label that stands twice in years
\* is counted twice
RECURSIVE SumYears(_, _)
SumYears(ys, d) == IF ys = <<>> THEN 0 ELSE Get(d, Head(ys), 0) + SumYears(Tail(ys), d)

YearSet(ys) == {ys[i] : i \in DOMAIN ys}

\* a row of the output: the year columns in the order of first insertion
phd_row(name, ys, d) ==
    [ProgramName |-> name,
     columns |-> SortedReverse(YearSet(ys)),
     values |-> [y \in YearSet(ys) |-> Get(d, y, 0)],
     Total |-> SumYears(ys, d)]

phd_rows(ys, ft, pt) ==
    IF ys = <<>> THEN <<>>
    ELSE LET ft_row == phd_row("Ph.D. Graduated - Full Time", ys, ft)
             pt_row == phd_row("Ph.D. Graduated - Part Time", ys, pt)
             total == [y \in YearSet(ys) |-> ft_row.values[y] + pt_row.values[y]]
         IN  <<ft_row, pt_row, phd_row("Ph.D. Graduated - Total", ys, total)>>

\* ------------------------------------------------------------- project funding
SponsoredMetric == <<"Total no. of", " ", "Sponsored Projects">>
ConsultancyMetric == <<"Total no. of", " ", "Consultancy Projects">>
AmountMetric == <<"Total Amount Received", " ", "(Amount in Rupees)">>

\* [v.strip() for v in cells if v and v.strip()]
StrippedNonBlank(cells) ==
    LET kept == SelectSeq(cells, LAMBDA v : Truthy(v) /\ Strip(v) # <<>>)
    IN  [i \in DOMAIN kept |-> Strip(kept[i])]

\* the field of the year's entry that a metric row fills, "" for any other row
funding_field(metric_name, project_key, amount_key) ==
    IF Contains(metric_name, SponsoredMetric) THEN project_key
    ELSE IF Contains(metric_name, ConsultancyMetric) THEN project_key
    ELSE IF Contains(metric_name, AmountMetric) THEN amount_key
    ELSE ""

RECURSIVE funding_set_years(_, _, _, _, _)
funding_set_years(d, values, ys, k, field) ==
    IF k > Len(ys) THEN d
    ELSE LET n == ParseInt(RemoveTok(values[k], ","))
         IN  funding_set_years(IF n.ok /\ field # ""
                               THEN Put(d, ys[k], Put(Get(d, ys[k], EmptyDict), field, n.val))
                               ELSE d,
                               values, ys, k + 1, field)

RECURSIVE funding_fold_rows(_, _, _, _, _)
funding_fold_rows(d, rows, ys, project_key, amount_key) ==
    IF rows = <<>> THEN d
    ELSE LET row == Head(rows)
             metric_name == Strip(Replace(row[1], "\n", " "))
             values == StrippedNonBlank(Tail(row))
         IN  funding_fold_rows(IF Len(values) < Len(ys) THEN d
                               ELSE funding_set_years(d, values, ys, 1,
                                                      funding_field(metric_name, project_key, amount_key)),
                               Tail(rows), ys, project_key, amount_key)

\* row[0].replace(...) of a row without cells or with a None first cell raises
\* an exception that nothing in the loop catches
vertical_table_raises(table) ==
    Len(table) >= 2 /\ \E i \in 2..Len(table) : table[i] = <<>> \/ table[i][1] = None

process_vertical_table(table, data_dict, project_key, amount_key) ==
    IF Len(table) < 2 THEN data_dict
    ELSE funding_fold_rows(data_dict, Tail(table),
                           IF table[1] = <<>> THEN <<>> ELSE StrippedNonBlank(Tail(table[1])),
                           project_key, amount_key)

\* " ".join(str(row[0]) for row in table if row and row[0])
first_column_text(table) == first_col_text(table)

is_sponsored_table(table) == Contains(first_column_text(table), <<"Sponsored Projects">>)
is_consultancy_table(table) == Contains(first_column_text(table), <<"Consultancy Projects">>)

funding_outcome(table) ==
    IF table = <<>> THEN "empty"
    ELSE IF ~is_sponsored_table(table) /\ ~is_consultancy_table(table) THEN "nosig"
    ELSE IF vertical_table_raises(table) THEN "raised"
    ELSE IF Len(table) < 2 THEN "short"
    ELSE "rows"

FieldOf(entry, field) == Get(entry, field, 0)

\* the rows the project-funding extractor returns
funding_rows(sponsored, consultancy) ==
    LET all_years == SortedReverse((DOMAIN sponsored) \cup (DOMAIN consultancy))
    IN  [i \in DOMAIN all_years |->
            LET s_entry == Get(sponsored, all_years[i], EmptyDict)
                c_entry == Get(consultancy, all_years[i], EmptyDict)
            IN  [SNo |-> i, FinancialYear |-> all_years[i],
                 SponsoredProjects |-> FieldOf(s_entry, "sponsored_projects"),
                 SponsoredAmount |-> FieldOf(s_entry, "sponsored_amount"),
                 ConsultancyProjects |-> FieldOf(c_entry, "consultancy_projects"),
                 ConsultancyAmount |-> FieldOf(c_entry, "consultancy_amount"),
                 TotalAmount |-> FieldOf(s_entry, "sponsored_amount") + FieldOf(c_entry, "consultancy_amount")]]

\* ------------------------------------------------------------- median salary output
\* the order of the program names as Python strings
ProgRank(prog) ==
    CASE prog = "PG-2" -> 1
      [] prog = "UG-1" -> 2
      [] prog = "UG-4" -> 3
      [] OTHER -> 0

\* digits in groups of three from the right: the "," of f"{x:,}"
RECURSIVE GroupThrees(_)
GroupThrees(str) ==
    IF Len(str) <= 3 THEN str
    ELSE GroupThrees(SubSeq(str, 1, Len(str) - 3)) \o <<",">> \o SubSeq(str, Len(str) - 2, Len(str))

\* f"₹{x:,.0f}" of an integer
format_salary(x) == <<"₹">> \o GroupThrees(IntStr(x))

\* f"₹{x:,.2f}" of the fraction x, rounded to hundredths
format_average(x) ==
    LET h == RoundDiv(100 * x.num, x.den)
    IN  <<"₹">> \o GroupThrees(IntStr(h \div 100)) \o <<".">>
            \o <<DigitChar((h % 100) \div 10), DigitChar(h % 10)>>

RECURSIVE SumSalaries(_, _)
SumSalaries(d, prog) ==
    IF d = <<>> THEN 0
    ELSE (IF Head(d).ProgramName = prog THEN Head(d).MedianSalary ELSE 0) + SumSalaries(Tail(d), prog)

CountOf(d, prog) == Cardinality({i \in DOMAIN d : d[i].ProgramName = prog})

\* the mean of the salaries of every program taken together
group_mean_overall(d, prog) ==
    [num |-> SumSalaries(d, "PG-2") + SumSalaries(d, "UG-1") + SumSalaries(d, "UG-4"), den |-> Len(d)]

\* df.groupby('ProgramName')['Median Salary'].transform('mean')
group_mean(d, prog) == [num |-> SumSalaries(d, prog), den |-> CountOf(d, prog)]

\* a comes before b: program ascending, then academic year descending
SortsBefore(a, b) ==
    \/ ProgRank(a.ProgramName) < ProgRank(b.ProgramName)
    \/ a.ProgramName = b.ProgramName /\ StrLess(b.AcademicYear, a.AcademicYear)

\* x put into the sorted d behind every row that does not come after it
RECURSIVE InsertSorted(_, _)
InsertSorted(d, x) ==
    IF d = <<>> THEN <<x>>
    ELSE IF SortsBefore(x, Head(d)) THEN <<x>> \o d
    ELSE <<Head(d)>> \o InsertSorted(Tail(d), x)

\* df.sort_values(by=['ProgramName', 'Academic Year'], ascending=[True, False])
RECURSIVE sort_values(_)
sort_values(d) ==
    IF d = <<>> THEN <<>>
    ELSE InsertSorted(sort_values(SubSeq(d, 1, Len(d) - 1)), d[Len(d)])

\* the rows the median-salary extractor returns: the average stays on the
\* first row of each program and is blanked on the others
salary_rows(d) ==
    LET sorted == sort_values(d)
    IN  [i \in DOMAIN sorted |->
            [SNo |-> i,
             ProgramName |-> sorted[i].ProgramName,
             AcademicYear |-> sorted[i].AcademicYear,
             MedianSalary |-> format_salary(sorted[i].MedianSalary),
             AverageMedianSalary |->
                 IF \E j \in 1..(i - 1) : sorted[j].ProgramName = sorted[i].ProgramName
                 THEN <<>>
                 ELSE format_average(group_mean(d, sorted[i].ProgramName))]]

\* ------------------------------------------------------------- the page and table loops
ContextExtractors == {"placement", "exam", "salary"}
StrengthExtractors == {"ratio", "location", "support"}

NoTable == [y |-> 0, data |-> <<>>]
NoPage == [text |-> <<>>]
NoLast == [valid |-> FALSE, table |-> NoTable, page |-> NoPage, prev |-> <<>>,
           r |-> Skipped("none", FALSE, ""), before |-> 0, dicts |-> <<EmptyDict, EmptyDict>>,
           period |-> <<EmptyDict, EmptyDict, <<>>, EmptyDict, EmptyDict>>]

\* the report generator, the batch download and the Excel writer are not running
IdleReport ==
    /\ report_pc = "idle"
    /\ master_pos = 0
    /\ report_data = <<>>
    /\ returned = <<>>
    /\ final_report_df = <<>>
    /\ college_name = <<"Unknown College">>
    /\ college_code = <<"PDF_1">>

IdleBatch ==
    /\ tab = "none"
    /\ batch_pc = "idle"
    /\ pdf_links = <<>>
    /\ link_pos = 0
    /\ pdf_files_to_process = <<>>
    /\ all_college_reports = {}

IdleSheet ==
    /\ sheet_name = <<>>
    /\ safe_sheet_name = <<>>

IdleDriver ==
    /\ driver = "none"
    /\ driver_pc = "idle"
    /\ n_docs = 0
    /\ doc_pos = 1
    /\ ext_pos = 1
    /\ handle = 0
    /\ calls = <<>>
    /\ results = <<>>
    /\ errors = <<>>

IdleIdentity ==
    /\ first_page_text = <<>>
    /\ identity = <<>>

IdleCurrency ==
    /\ amount = 0
    /\ formatted = <<>>

InitFor(e) ==
    /\ extractor = e
    /\ pc = "pages"
    /\ pageNo = 0
    /\ tableNo = 0
    /\ page = NoPage
    /\ tablesLeft = 0
    /\ previous_page_text = <<>>
    /\ data = <<>>
    /\ table_found = FALSE
    /\ last = NoLast
    /\ outcomes = <<>>
    /\ capital_exp = EmptyDict
    /\ operational_exp = EmptyDict
    /\ output = <<>>
    /\ messages = <<>>
    /\ full_time_grads = EmptyDict
    /\ part_time_grads = EmptyDict
    /\ years = <<>>
    /\ sponsored_data = EmptyDict
    /\ consultancy_data = EmptyDict
    /\ IdleReport
    /\ IdleBatch
    /\ IdleSheet
    /\ IdleDriver
    /\ IdleIdentity
    /\ IdleCurrency

\* every returned frame is shown as results
ui_messages_always_results(raised, df) ==
    (IF raised THEN <<"error">> ELSE <<>>) \o <<"results">>

\* what the user is shown for one extractor on one document: st.error of the extractor's
\* `except Exception`, then, from the driver, the results of the kind when the returned
\* frame has rows and the warning that no data could be extracted when it is empty
ui_messages(raised, df) ==
    (IF raised THEN <<"error">> ELSE <<>>) \o <<IF df = <<>> THEN "no_data" ELSE "results">>

\* `for page in pdf.pages:` reaches a page holding n tables
OpenPage(p, n) ==
    /\ pc = "pages"
    /\ pageNo < MaxPages
    /\ tableNo + n <= MaxTables
    /\ ~table_found
    /\ page' = p
    /\ pageNo' = pageNo + 1
    /\ tablesLeft' = n
    /\ pc' = IF n = 0 THEN "pages" ELSE "tables"
    /\ previous_page_text' = IF n = 0 /\ extractor \in ContextExtractors
                             THEN ExtractText(p) ELSE previous_page_text
    /\ UNCHANGED <<extractor, tableNo, data, table_found, last, outcomes, capital_exp, operational_exp, output, messages, period_vars, report_vars, batch_vars, sheet_vars, driver_vars, identity_vars, currency_vars>>

\* one iteration of `for table_obj in table_objects:` of a context extractor
ContextStep(t, r) ==
    /\ pc = "tables"
    /\ tablesLeft > 0
    /\ last' = [valid |-> TRUE, table |-> t, page |-> page, prev |-> previous_page_text,
                r |-> r, before |-> Len(data), dicts |-> <<capital_exp, operational_exp>>, period |-> period_vars]
    /\ outcomes' = Append(outcomes, r.outcome)
    /\ tableNo' = tableNo + 1
    /\ tablesLeft' = tablesLeft - 1
    /\ data' = IF r.raised THEN <<>> ELSE data \o r.recs
    /\ pc' = IF r.raised THEN "done" ELSE pc
    /\ output' = IF r.raised THEN <<>> ELSE output
    /\ messages' = IF r.raised THEN ui_messages(TRUE, <<>>) ELSE messages
    /\ UNCHANGED <<extractor, pageNo, page, previous_page_text, table_found, capital_exp, operational_exp, period_vars, report_vars, batch_vars, sheet_vars, driver_vars, identity_vars, currency_vars>>

PlacementTable(t) ==
    /\ extractor = "placement"
    /\ ContextStep(t, placement_table(t, page, previous_page_text))

ExamTable(t) ==
    /\ extractor = "exam"
    /\ ContextStep(t, exam_table(t, page, previous_page_text))

SalaryTable(t) ==
    /\ extractor = "salary"
    /\ ContextStep(t, salary_table(t, page, previous_page_text))

\* one iteration of `for table in tables:` of a strength-table extractor; the
\* first table with the signature ends both loops
StrengthStep(t, r) ==
    /\ pc = "tables"
    /\ tablesLeft > 0
    /\ last' = [valid |-> TRUE, table |-> t, page |-> page, prev |-> previous_page_text,
                r |-> r, before |-> Len(data), dicts |-> <<capital_exp, operational_exp>>, period |-> period_vars]
    /\ outcomes' = Append(outcomes, r.outcome)
    /\ tableNo' = tableNo + 1
    /\ tablesLeft' = tablesLeft - 1
    /\ data' = IF r.raised THEN <<>> ELSE data \o r.recs
    /\ table_found' = (r.outcome \in {"rows", "raised"})
    /\ pc' = IF r.outcome \in {"rows", "raised"} THEN "done" ELSE pc
    /\ output' = IF r.outcome = "rows" THEN data \o r.recs ELSE output
    /\ messages' = IF r.outcome = "rows" THEN ui_messages(FALSE, data \o r.recs)
                    ELSE IF r.raised THEN ui_messages(TRUE, <<>>) ELSE messages
    /\ UNCHANGED <<extractor, pageNo, page, previous_page_text, capital_exp, operational_exp, period_vars, report_vars, batch_vars, sheet_vars, driver_vars, identity_vars, currency_vars>>

RatioTable(t) ==
    /\ extractor = "ratio"
    /\ StrengthStep(t, ratio_table(t))

LocationTable(t) ==
    /\ extractor = "location"
    /\ StrengthStep(t, location_table(t))

SupportTable(t) ==
    /\ extractor = "support"
    /\ StrengthStep(t, support_table(t))

\* one iteration of `for table in tables:` of the expenditure extractor
ExpenditureTable(t) ==
    /\ extractor = "expenditure"
    /\ pc = "tables"
    /\ tablesLeft > 0
    /\ last' = [valid |-> TRUE, table |-> t, page |-> page, prev |-> previous_page_text,
                r |-> Skipped(expenditure_outcome(t.data), FALSE, ""), before |-> Len(data),
                dicts |-> <<capital_exp, operational_exp>>, period |-> period_vars]
    /\ outcomes' = Append(outcomes, expenditure_outcome(t.data))
    /\ tableNo' = tableNo + 1
    /\ tablesLeft' = tablesLeft - 1
    /\ capital_exp' = expenditure_after(capital_exp, "capital", capital_keys, t.data)
    /\ operational_exp' = expenditure_after(operational_exp, "operational", operational_keys, t.data)
    /\ UNCHANGED <<extractor, pc, pageNo, page, previous_page_text, data, table_found, output, messages, period_vars, report_vars, batch_vars, sheet_vars, driver_vars, identity_vars, currency_vars>>

\* one iteration of `for table in tables:` of the Ph.D extractor; the table
\* that is processed ends the loop over the tables of its page
PhdTable(t) ==
    /\ extractor = "phd"
    /\ pc = "tables"
    /\ tablesLeft > 0
    /\ LET outcome == phd_outcome(t.data, years)
           ys == phd_years(t.data, years)
       IN  /\ last' = [valid |-> TRUE, table |-> t, page |-> page, prev |-> previous_page_text,
                       r |-> Result(outcome, FALSE, "", <<>>, outcome = "raised"), before |-> Len(data),
                       dicts |-> <<capital_exp, operational_exp>>, period |-> period_vars]
           /\ outcomes' = Append(outcomes, outcome)
           /\ tableNo' = tableNo + 1
           /\ tablesLeft' = IF outcome = "rows" THEN 0 ELSE tablesLeft - 1
           /\ years' = IF outcome \in {"short", "nosig"} THEN years ELSE ys
           /\ full_time_grads' = IF outcome = "rows"
                                 THEN phd_fold_rows(full_time_grads, t.data, ys, "Full Time")
                                 ELSE full_time_grads
           /\ part_time_grads' = IF outcome = "rows"
                                 THEN phd_fold_rows(part_time_grads, t.data, ys, "Part Time")
                                 ELSE part_time_grads
           /\ pc' = IF outcome = "raised" THEN "done" ELSE pc
           /\ output' = IF outcome = "raised" THEN <<>> ELSE output
           /\ messages' = IF outcome = "raised" THEN ui_messages(TRUE, <<>>) ELSE messages
    /\ UNCHANGED <<extractor, pageNo, page, previous_page_text, data, table_found,
                   capital_exp, operational_exp, sponsored_data, consultancy_data,
                   report_vars, batch_vars, sheet_vars, driver_vars, identity_vars, currency_vars>>

\* one iteration of `for table in tables:` of the project-funding extractor
FundingTable(t) ==
    /\ extractor = "funding"
    /\ pc = "tables"
    /\ tablesLeft > 0
    /\ LET outcome == funding_outcome(t.data)
       IN  /\ last' = [valid |-> TRUE, table |-> t, page |-> page, prev |-> previous_page_text,
                       r |-> Result(outcome, FALSE, "", <<>>, outcome = "raised"), before |-> Len(data),
                       dicts |-> <<capital_exp, operational_exp>>, period |-> period_vars]
           /\ outcomes' = Append(outcomes, outcome)
           /\ tableNo' = tableNo + 1
           /\ tablesLeft' = tablesLeft - 1
           /\ sponsored_data' = IF outcome \in {"rows", "short"} /\ is_sponsored_table(t.data)
                                THEN process_vertical_table(t.data, sponsored_data,
                                                            "sponsored_projects", "sponsored_amount")
                                ELSE sponsored_data
           /\ consultancy_data' = IF outcome \in {"rows", "short"} /\ is_consultancy_table(t.data)
                                  THEN process_vertical_table(t.data, consultancy_data,
                                                              "consultancy_projects", "consultancy_amount")
                                  ELSE consultancy_data
           /\ pc' = IF outcome = "raised" THEN "done" ELSE pc
           /\ output' = IF outcome = "raised" THEN <<>> ELSE output
           /\ messages' = IF outcome = "raised" THEN ui_messages(TRUE, <<>>) ELSE messages
    /\ UNCHANGED <<extractor, pageNo, page, previous_page_text, data, table_found,
                   capital_exp, operational_exp, full_time_grads, part_time_grads, years,
                   report_vars, batch_vars, sheet_vars, driver_vars, identity_vars, currency_vars>>

\* the tables of the page are exhausted
\* the end of a page's table loop without the assignment to previous_page_text
EndPage_keeps_text ==
    /\ pc = "tables"
    /\ tablesLeft = 0
    /\ pc' = "pages"
    /\ UNCHANGED <<extractor, pageNo, tableNo, page, tablesLeft, previous_page_text, data, table_found, last, outcomes,
                   capital_exp, operational_exp, output, messages, period_vars, report_vars, batch_vars, sheet_vars, driver_vars, identity_vars, currency_vars>>

EndPage ==
    /\ pc = "tables"
    /\ tablesLeft = 0
    /\ pc' = "pages"
    /\ previous_page_text' = IF extractor \in ContextExtractors
                             THEN ExtractText(page) ELSE previous_page_text
    /\ UNCHANGED <<extractor, pageNo, tableNo, page, tablesLeft, data, table_found, last, outcomes,
                   capital_exp, operational_exp, output, messages, period_vars, report_vars, batch_vars, sheet_vars, driver_vars, identity_vars, currency_vars>>

\* what the extractor returns once its loops have ended
Returned(e, d, cap, op) ==
    CASE e = "expenditure" -> expenditure_rows(cap, op)
      [] e = "phd" -> phd_rows(years, full_time_grads, part_time_grads)
      [] e = "funding" -> funding_rows(sponsored_data, consultancy_data)
      [] e = "salary" -> salary_rows(d)
      [] OTHER -> d

\* the pages are exhausted: the extractor returns its records
Finish ==
    /\ pc = "pages"
    /\ pageNo >= 1
    /\ pc' = "done"
    /\ output' = Returned(extractor, data, capital_exp, operational_exp)
    /\ messages' = ui_messages(FALSE, Returned(extractor, data, capital_exp, operational_exp))
    /\ UNCHANGED <<extractor, pageNo, tableNo, page, tablesLeft, previous_page_text,
                   data, table_found, last, outcomes, capital_exp, operational_exp, period_vars, report_vars, batch_vars, sheet_vars, driver_vars, identity_vars, currency_vars>>

\* ------------------------------------------------------------- input documents
\* header rows as the PDF gives them: a line break for a space, stray blanks,
\* an extra note or a missing cell in one column
Variants == {"same", "newline", "lead", "trail", "suffix", "none"}

Vary(cell, v) ==
    CASE v = "same" -> cell
      [] v = "newline" -> Replace(cell, " ", "\n")
      [] v = "lead" -> <<" ">> \o cell
      [] v = "trail" -> cell \o <<" ">>
      [] v = "suffix" -> cell \o <<" ", "(Nos.)">>
      [] v = "none" -> None

VaryAt(h, k, v) == [i \in DOMAIN h |-> IF i = k THEN Vary(h[i], v) ELSE h[i]]

Drop(row, ks) == LET keep == SelectSeq([i \in DOMAIN row |-> i], LAMBDA i : i \notin ks)
                 IN  [i \in DOMAIN keep |-> row[keep[i]]]

FullHeader == <<AY, ADM, AY, LAT, AY, GRAD, PLACED, MED, HS>>
NoLateralHeader == Drop(FullHeader, {4, 5})
OneYearHeader == Drop(FullHeader, {3, 4, 5})
NoYearHeader == Drop(FullHeader, {1, 3, 4, 5})
StrengthHeader == <<PROGRAMS, MALE, FEMALE, TOTAL, OUTSTATE, OUTCOUNTRY,
                    EB, SC, GOVFEE, INSTFEE, PVTFEE, NOFEE>>

ContextRows ==
    { <<<<"2016-17">>, <<"2", "0", "0">>, <<"2017-18">>, <<"0">>, <<"2019-20">>,
        <<"2", "0", "0">>, <<"5", "0">>,
        <<"3", "5", "0", "0", "0", "0", "(Three Lakh Fifty Thousand)">>, <<"2", "0">>>>,
      <<<<"2015-16">>, <<"0">>, <<"2016-17">>, <<>>, <<"2018-19">>,
        <<"0">>, <<"0">>, <<"0", "(Zero)">>, <<"0">>>>,
      <<<<"2014-15">>, <<"1", ",", "0", "0", "0">>, <<"2015-16">>, <<"1", ",", "2", "3", "4">>,
        <<"2017-18">>, <<"1", ",", "2", "3", "2">>, <<"6", "1", "6">>,
        <<"4", ",", "5", "0", ",", "0", "0", "0", "(Four Lakh Fifty Thousand)">>, <<"7", "7">>>>,
      <<<<"2016-17">>, <<"3", "2">>, <<"2017-18">>, <<" ", "3", "4", " ">>, <<"2019-20">>,
        <<"3">>, None, <<"-">>, <<"2">>>>,
      <<<<"2015-16">>, <<"3", "2">>, <<"2016-17">>, <<"-">>, <<"2018-19">>,
        <<"3">>, <<"1">>, None, <<"2">>>>,
      <<<<"2013-14">>, <<"abc">>, <<"2014-15">>, <<"5">>, <<"2016-17">>,
        <<"8">>, <<"4">>, <<"9", "0", ",", "0", "0", "0">>, <<>>>>,
      <<<<"2014-15">>, <<"5">>, <<"2015-16">>>> }

ContextRowsBad == <<CHOOSE row \in ContextRows : row[2] = <<"abc">>>>

GoodRow == CHOOSE row \in ContextRows : row[1] = <<"2016-17">> /\ row[2] = <<"2", "0", "0">>

\* tables laid out as the report's placement table, at vertical position y:
\* every row under the clean headers, one good row under every varied header
ContextTablesAt(y) ==
    {[y |-> y, data |-> <<VaryAt(FullHeader, k, v), GoodRow>>] :
        k \in DOMAIN FullHeader, v \in Variants}
    \cup {[y |-> y, data |-> <<FullHeader, row>>] : row \in ContextRows}
    \cup {[y |-> y, data |-> <<NoLateralHeader, Drop(row, {4, 5})>>] : row \in ContextRows}
    \cup {[y |-> y, data |-> <<StrengthHeader, GoodRow>>],
          [y |-> y, data |-> <<OneYearHeader, Drop(GoodRow, {3, 4, 5})>>],
          [y |-> y, data |-> <<NoYearHeader, Drop(GoodRow, {1, 3, 4, 5})>>],
          [y |-> y, data |-> <<FullHeader, Head(ContextRowsBad), GoodRow>>],
          [y |-> y, data |-> <<FullHeader>>],
          [y |-> y, data |-> <<>>]}

UG4 == <<"UG [", "4 Years Program(s)]">>
PG2 == <<"PG [", "2 Years Program(s)]">>

\* rows of the student strength table: label, male, female, total, outside
\* state, outside country, and the six support counts
StrengthRows ==
    { <<UG4, <<"5", "5", "0">>, <<"4", "5", "0">>, <<"1", "0", "0", "0">>, <<"2", "0", "0">>, <<"1", "0">>,
        <<"1", "0", "0">>, <<"3", "0", "0">>, <<"5", "0">>, <<"2", "0">>, <<"5">>, <<"3", "2", "5">>>>,
      <<PG2, <<"0">>, <<"0">>, <<"0">>, <<"0">>, <<"0">>,
        <<"0">>, <<"0">>, <<"0">>, <<"0">>, <<"0">>, <<"0">>>>,
      <<<<"UG [", "4", "\n", "Years Program(s)]", " ">>, <<"2", "9">>, <<" ", "3">>, <<"3", "2", " ">>,
        <<"1", ",", "0", "0", "0">>, <<"1">>,
        <<"1", ",", "2", "3", "4">>, <<"7">>, <<"1">>, <<"2">>, <<"3">>, <<"4">>>>,
      <<PG2, <<"7">>, None, <<"1", "2">>, <<"3">>, <<"1">>,
        <<"1">>, <<"2">>, None, <<"1">>, <<"1">>, <<"1">>>>,
      <<PG2, <<"7">>, <<>>, <<"1", "2">>, <<"-">>, <<"1">>,
        <<"1">>, <<"2">>, <<"-">>, <<"1">>, <<"1">>, <<"1">>>>,
      <<<<"PG-Integrated">>, <<"7">>, <<"5">>, <<"1", "2">>, <<"3">>, <<"1">>,
        <<"1">>, <<"2">>, <<"2">>, <<"1">>, <<"1">>, <<"1">>>>,
      <<None, <<"7">>, <<"5">>, <<"1", "2">>, <<"3">>, <<"1">>,
        <<"1">>, <<"2">>, <<"2">>, <<"1">>, <<"1">>, <<"1">>>>,
      <<UG4, <<"7">>, <<"5">>>> }

GoodStrengthRow == CHOOSE row \in StrengthRows : row[1] = UG4 /\ Len(row) = 12 /\ row[2] = <<"5", "5", "0">>
OtherStrengthRow == CHOOSE row \in StrengthRows : row[1] = <<"PG-Integrated">>
NoneStrengthRow == CHOOSE row \in StrengthRows : Len(row) = 12 /\ row[3] = None

\* the table of the specification's first end-to-end scenario
ScenarioHeader == <<<<"Program">>, TOTAL, FEMALE>>
ScenarioRow == <<<<"UG [", "4 Years]">>, <<"1", "0", "0", "0">>, <<"4", "5", "0">>>>
ScenarioTable == [y |-> 200, data |-> <<ScenarioHeader, ScenarioRow>>]
ScenarioTableWithMale ==
    [y |-> 200, data |-> <<<<<<"Program">>, MALE, FEMALE, TOTAL>>,
                           <<<<"UG [", "4 Years]">>, <<"5", "5", "0">>, <<"4", "5", "0">>, <<"1", "0", "0", "0">>>>>>]

StrengthTables ==
    {[y |-> 200, data |-> <<VaryAt(StrengthHeader, k, v), GoodStrengthRow>>] :
        k \in DOMAIN StrengthHeader, v \in Variants}
    \cup {[y |-> 200, data |-> <<StrengthHeader, row>>] : row \in StrengthRows}
    \cup {[y |-> 200, data |-> <<StrengthHeader, OtherStrengthRow, row>>] : row \in StrengthRows}
    \cup {[y |-> 200, data |-> <<StrengthHeader, GoodStrengthRow, NoneStrengthRow>>],
          [y |-> 200, data |-> <<FullHeader, GoodRow>>],
          [y |-> 200, data |-> <<StrengthHeader>>],
          [y |-> 200, data |-> <<>>],
          ScenarioTable, ScenarioTableWithMale}

LabelPage == [text |-> <<[y |-> 100, s |-> "UG [4 Years Program(s)]"]>>]
HeaderPages == {LabelPage, NoPage}
BelowLabel == 200

\* the financial tables of a report
FY == <<"Financial Year">>
Y1 == <<"2022-23">>
Y2 == <<"2021-22">>
UTIL == <<"Utilised Amount">>
CapitalTitle == <<"Annual", " ", "Capital Expenditure", " ", "on Academic Activities">>
OperationalTitle == <<"Annual", " ", "Operational Expenditure">>
LibraryTitle == <<"Library", " ", "(", "Books, Journals and e-Resources only", ")">>
SalariesTitle == <<"Salaries", " ", "(", "Teaching and Non Teaching staff", ")">>

MoneyCells ==
    { <<"₹", "1", ",", "2", "3", "4", " ", "(", "approx", ")">>,
      <<"1", "2", "3", "4", " ", "(", "2", " ", "instalments", ")">>,
      <<" ", "5", "0", "0", " ">>,
      <<"(", "approx", " ", "5", "0", "0", ")">>,
      <<"-">>,
      <<>>,
      None }

Approx == <<"₹", "1", ",", "2", "3", "4", " ", "(", "approx", ")">>
Seventy == <<"7", "0">>

ExpenditureData ==
    { << <<FY, Y1, Y2>>, <<CapitalTitle, UTIL, UTIL>>, <<LibraryTitle, c1, Seventy>> >> : c1 \in MoneyCells }
    \cup { << <<FY, Y1, Y2>>, <<OperationalTitle, UTIL, UTIL>>, <<SalariesTitle, c1, Seventy>> >> :
             c1 \in {Approx, <<"(", "approx", " ", "5", "0", "0", ")">>} }
    \cup { << <<FY, Y1, Y2>>, <<title, UTIL, UTIL>>, <<rt, Approx, Seventy>> >> :
             title \in {CapitalTitle}, rt \in {<<"LIBRARY">>, SalariesTitle, <<"Other expenditure">>} }
    \cup { << h, <<CapitalTitle, UTIL, UTIL>>, <<LibraryTitle, Approx, Seventy>> >> :
             h \in { <<FY, Y1, Y1>>, <<FY, <<"2022-23", "\n", "(Rs.)">>, Y2>> } }
    \cup { << <<CapitalTitle, UTIL, UTIL>>, <<FY, Y1, Y2>>, <<LibraryTitle, c1, Seventy>>,
              <<OperationalTitle, UTIL, UTIL>>, <<SalariesTitle, <<"9">>, c1>> >> : c1 \in {Approx, <<>>} }
    \cup { << <<FY, Y1, Y2>>, <<OperationalTitle, UTIL, UTIL>>, <<LibraryTitle, Approx, Seventy>> >>,
           << <<FY, Y1, Y2>>, <<CapitalTitle, UTIL, UTIL>>, <<LibraryTitle, <<"5">> >> >>,
           << <<FY, Y1, Y2>>, <<<<"Sponsored Projects">>, UTIL, UTIL>>, <<LibraryTitle, <<"5">>, <<"6">> >> >>,
           << <<CapitalTitle, UTIL, UTIL>>, <<LibraryTitle, <<"5">>, <<"6">> >> >>,
           << <<CapitalTitle, UTIL, UTIL>> >> }

\* two separate single-row tables, one per category and year
ScenarioCapital == << <<FY, Y2>>, <<CapitalTitle, UTIL>>, <<LibraryTitle, <<"1", "0", "0">> >> >>
ScenarioOperational == << <<FY, Y1>>, <<OperationalTitle, UTIL>>, <<SalariesTitle, <<"3", "0", "1">> >> >>

ExpenditureTables ==
    {[y |-> BelowLabel, data |-> d] : d \in ExpenditureData \cup {ScenarioCapital, ScenarioOperational}}

\* the Ph.D tables of a report
Y3 == <<"2020-21">>
PhdTitle == <<"No. of Ph.D students graduated", " ", "(including Integrated Ph.D)">>
FullTime == <<"Full Time">>
PartTime == <<"Part Time">>

PhdCells == { <<"1", "0">>, <<"1", ",", "2", "3", "4">>, <<" ", "7", " ">>, <<>>, None }

PhdHeaders == { <<<<>>, Y1, Y2>>, <<<<>>, Y2, Y1>>, <<<<>>, Y1, Y1>>, <<<<>>, <<>>, Y1, Y2>>,
                <<<<>>, <<"2022-23", "\n", "(Rs.)">>, Y1>> }

PhdData ==
    { << <<PhdTitle, None, None>>, <<<<>>, Y1, Y2>>, <<FullTime, c, <<"1", "2">> >>,
         <<PartTime, <<"3">>, c>> >> : c \in PhdCells }
    \cup { << <<PhdTitle, None, None>>, h, <<FullTime, <<"5">>, <<"6">>, <<"8">> >>,
              <<PartTime, <<"1">>, <<"2">>, <<"4">> >> >> : h \in PhdHeaders }
    \cup { << <<PhdTitle, None>>, <<<<>>, Y3>>, <<FullTime, <<"9">> >>, <<PartTime, <<"9">> >> >>,
           << <<PhdTitle, None>>, <<FullTime, <<"4">> >>, <<PartTime, <<"4">> >> >>,
           << <<PhdTitle, None>>, <<<<>>, Y3>>, <<FullTime, <<"9">> >>, <<>> >>,
           << <<PhdTitle, None>>, <<<<>>, Y1, Y2>>, <<PartTime, <<"3">> >> >>,
           << <<<<"Ph.D (Student pursuing doctoral program till 2022-23)">>, None>>,
              <<FullTime, <<"1", "2", "0">> >> >>,
           << <<PhdTitle, None>> >> }

PhdTables == {[y |-> BelowLabel, data |-> d] : d \in PhdData}

\* the sponsored-research and consultancy tables of a report
SponsoredRow(c1, c2) == <<SponsoredMetric, c1, c2>>
ConsultancyRow(c1, c2) == <<ConsultancyMetric, c1, c2>>
AmountRow(c1, c2) == <<AmountMetric, c1, c2>>
Words == <<<<"Amount Received in Words">>, <<"Twelve">>, <<"Seven">> >>

FundingCells == { <<"1", "2">>, <<"1", ",", "2", "3", "4">>, <<" ", "7", " ">>, <<>>, <<"-">>, None }

FundingData ==
    { << <<FY, Y1, Y2>>, SponsoredRow(c, <<"3">>), AmountRow(<<"5", "0", "0">>, c), Words >> :
        c \in FundingCells }
    \cup { << h, ConsultancyRow(<<"4">>, <<"6">>), AmountRow(<<"9", "0">>, <<"8", "0">>) >> :
             h \in { <<FY, Y1, Y2>>, <<FY, Y2, Y1>>, <<FY, Y1, Y1>>, <<FY, <<" ", "2020-21", " ">>, Y2>>,
                     <<FY, Y1>> } }
    \cup { << <<FY, Y1, Y2>>, SponsoredRow(<<"2">>, <<"3">>), ConsultancyRow(<<"4">>, <<"6">>),
              AmountRow(<<"9", "0">>, <<"8", "0">>) >>,
           << <<FY, Y1, Y2>>, SponsoredRow(<<"2">>, <<"3">>), <<None, <<"1">>, <<"2">> >> >>,
           << <<FY, Y1, Y2>>, AmountRow(<<"9", "0">>, <<"8", "0">>) >>,
           << SponsoredRow(<<"2">>, <<"3">>) >>,
           <<>> }

FundingTables == {[y |-> BelowLabel, data |-> d] : d \in FundingData}

Init == \E e \in ContextExtractors \cup StrengthExtractors \cup {"expenditure", "phd", "funding"} : InitFor(e)

Next ==
    \/ \E p \in HeaderPages, n \in 0..MaxTables : OpenPage(p, n)
    \/ \E t \in ContextTablesAt(BelowLabel) : PlacementTable(t)
    \/ \E t \in ContextTablesAt(BelowLabel) : ExamTable(t)
    \/ \E t \in ContextTablesAt(BelowLabel) : SalaryTable(t)
    \/ \E t \in StrengthTables : RatioTable(t)
    \/ \E t \in StrengthTables : LocationTable(t)
    \/ \E t \in StrengthTables : SupportTable(t)
    \/ \E t \in ExpenditureTables : ExpenditureTable(t)
    \/ \E t \in PhdTables : PhdTable(t)
    \/ \E t \in FundingTables : FundingTable(t)
    \/ EndPage
    \/ Finish

Spec == Init /\ [][Next]_vars

\* ------------------------------------------------------------- context resolution inputs
LineYs == {100, 200}
TableYs == {100, 149, 150, 250}
LineTexts == {"UG [4 Years Program(s)]", "PG [2 Years Program(s)]", "UG [4 Years]"}

ContextPages ==
    {NoPage}
    \cup {[text |-> <<[y |-> y, s |-> s]>>] : y \in LineYs, s \in LineTexts}
    \cup {[text |-> <<[y |-> 100, s |-> s1], [y |-> 200, s |-> s2]>>] : s1 \in LineTexts, s2 \in LineTexts}

PositionedTables == {[y |-> y, data |-> <<FullHeader, GoodRow>>] : y \in TableYs}

InitContext == \E e \in ContextExtractors : InitFor(e)

NextContext ==
    \/ \E p \in ContextPages, n \in 0..MaxTables : OpenPage(p, n)
    \/ \E t \in PositionedTables : PlacementTable(t)
    \/ \E t \in PositionedTables : ExamTable(t)
    \/ \E t \in PositionedTables : SalaryTable(t)
    \/ EndPage
    \/ Finish

SpecContext == InitContext /\ [][NextContext]_vars

\* ------------------------------------------------------------- median salary inputs
SalaryHeader == NoLateralHeader
SalaryCells == { <<"3", "5", "0", "0", "0", "0", "(Three Lakh Fifty Thousand)">>,
                 <<"4", ",", "0", "0", ",", "0", "0", "1">>,
                 <<"5", "0", "0">> }

SalaryRow(year, cell) == <<<<"2018-19">>, <<"1", "0">>, year, <<"9">>, <<"5">>, cell, <<"2">>>>

SalaryData ==
    { <<SalaryHeader, SalaryRow(year, cell)>> : year \in {Y1, Y2, Y3}, cell \in SalaryCells }
    \cup { <<SalaryHeader, SalaryRow(Y3, <<"5", "0", "0">>), SalaryRow(Y1, <<"7", "0", "0">>),
             SalaryRow(Y2, <<"9", "0", "1">>)>>,
           <<SalaryHeader, SalaryRow(Y2, <<"-">>), SalaryRow(Y2, <<"6", "0", "0">>)>>,
           <<StrengthHeader, GoodStrengthRow>> }

SalaryTables == {[y |-> BelowLabel, data |-> d] : d \in SalaryData}

SalaryPages == {[text |-> <<[y |-> 100, s |-> l]>>] : l \in {"UG [4 Years Program(s)]", "PG [2 Years Program(s)]"}}
               \cup {NoPage}

InitSalary == InitFor("salary")

NextSalary ==
    \/ \E p \in SalaryPages, n \in 0..MaxTables : OpenPage(p, n)
    \/ \E t \in SalaryTables : SalaryTable(t)
    \/ EndPage
    \/ Finish

SpecSalary == InitSalary /\ [][NextSalary]_vars

\* ------------------------------------------------------------- full report (full_report_tab.py)
MaxExtractors == 3     \* entries of the master extractors list

\* a DataFrame is a sequence of rows, a row a sequence of cells in column order
Cell(c, v) == [col |-> c, value |-> v]

ignore_cols_wider ==
    {"SNo", "S.No", "CollegeName", "CollegeCode", "ProgramName", "Program",
     "Academic Year", "Financial Year", "GraduationYear", "Graduated"}

ignore_cols ==
    {"SNo", "S.No", "CollegeName", "CollegeCode", "ProgramName", "Program",
     "Academic Year", "Financial Year", "GraduationYear"}

HasCol(row, c) == \E i \in DOMAIN row : row[i].col = c

ColValue(row, c) == row[CHOOSE i \in DOMAIN row : row[i].col = c].value

notna(v) == v # None

\* `if c in row and pd.notna(row[c]): context += f" ({row[c]})"`
context_part(row, c, open) ==
    IF HasCol(row, c) /\ notna(ColValue(row, c))
    THEN <<" ">> \o open \o ColValue(row, c) \o <<")">>
    ELSE <<>>

context(row) ==
    context_part(row, "ProgramName", <<"(">>)
    \o context_part(row, "Program", <<"(">>)
    \o context_part(row, "Academic Year", <<"(">>)
    \o context_part(row, "Financial Year", <<"(">>)
    \o context_part(row, "GraduationYear", <<"(", "Graduating", " ">>)

\* f"{col_name}{context}".strip()
parameter_name(col_name, ctx) == Strip(<<col_name>> \o ctx)

\* the (Parameter, Value) rows of one row of the DataFrame
report_rows_of(row) ==
    LET kept == SelectSeq(row, LAMBDA c : c.col \notin ignore_cols)
    IN  [i \in DOMAIN kept |->
            [Parameter |-> parameter_name(kept[i].col, context(row)), Value |-> kept[i].value]]

RECURSIVE reformat_data_for_full_report(_)
reformat_data_for_full_report(df) ==
    IF df = <<>> THEN <<>>
    ELSE report_rows_of(Head(df)) \o reformat_data_for_full_report(Tail(df))

\* pd.concat(report_data, ignore_index=True)
RECURSIVE concat(_)
concat(dfs) == IF dfs = <<>> THEN <<>> ELSE Head(dfs) \o concat(Tail(dfs))

\* rows whose Parameter is not among the ones already seen, in order
RECURSIVE drop_seen(_, _)
drop_seen(rows, seen) ==
    IF rows = <<>> THEN <<>>
    ELSE IF Head(rows).Parameter \in seen THEN drop_seen(Tail(rows), seen)
    ELSE <<Head(rows)>> \o drop_seen(Tail(rows), seen \cup {Head(rows).Parameter})

Backwards(rows) == [i \in DOMAIN rows |-> rows[Len(rows) + 1 - i]]

drop_duplicates_keep_last(rows) == Backwards(drop_seen(Backwards(rows), {}))

\* final_report_df.drop_duplicates(subset='Parameter', keep='first')
drop_duplicates(rows) == drop_seen(rows, {})

UnknownCollege == <<"Unknown College">>

\* f"{college_name} | {college_code}"
report_key(name, code) == name \o <<" ", "|", " ">> \o code

\* ---- the DataFrames the extractors hand to the report
CollegeA == <<"ABC Institute">>
CodeA == <<"IR-E-U-0001">>
ShortUG4 == <<"UG-4">>
UGProgram == <<"UG [4 Years Program(s)]">>

PlacementRecord(sno, prog, grad_year, graduated, placed, pct) ==
    << Cell("SNo", sno), Cell("CollegeName", CollegeA), Cell("CollegeCode", CodeA),
       Cell("ProgramName", prog), Cell("GraduationYear", grad_year),
       Cell("Graduated", graduated), Cell("Placed", placed), Cell("Placement %", pct),
       Cell("Higher Studies", <<"0">>), Cell("Higher Studies %", <<"0.0">>) >>

ExamRecord(sno, prog, admit_year, grad_year, admitted, graduated, pct) ==
    << Cell("SNo", sno), Cell("CollegeName", CollegeA), Cell("CollegeCode", CodeA),
       Cell("ProgramName", prog), Cell("AdmitYear", admit_year), Cell("GraduationYear", grad_year),
       Cell("TotalAdmitted", admitted), Cell("Graduated", graduated), Cell("Percentage", pct) >>

RatioRecord(sno, prog, total, female, ratio) ==
    << Cell("S.No", sno), Cell("College Name", CollegeA), Cell("College ID", CodeA),
       Cell("Program", prog), Cell("Total Students", total), Cell("Female Students", female),
       Cell("Female Ratio (%)", ratio) >>

ExpenditureRecord(sno, name, id, year, cap, op, total) ==
    << Cell("S.No", sno), Cell("College Name", name), Cell("College ID", id),
       Cell("Academic Year", year), Cell("Capital Expenditure", cap),
       Cell("Operational Expenditure", op), Cell("Total Expenditure", total) >>

PlacementFrame ==
    << PlacementRecord(<<"1">>, ShortUG4, Y1, <<"200">>, <<"150">>, <<"75.0">>),
       PlacementRecord(<<"2">>, ShortUG4, Y2, <<"180">>, <<"90">>, <<"50.0">>) >>

\* two tables under one label give two records of one programme and one graduation year
RepeatedPlacementFrame ==
    << PlacementRecord(<<"1">>, ShortUG4, Y1, <<"200">>, <<"150">>, <<"75.0">>),
       PlacementRecord(<<"2">>, ShortUG4, Y1, <<"32">>, <<"16">>, <<"50.0">>) >>

ExamFrame == << ExamRecord(<<"1">>, ShortUG4, Y3, Y1, <<"210">>, <<"200">>, <<"95.24">>) >>

RatioFrame == << RatioRecord(<<"1">>, UGProgram, <<"400">>, <<"100">>, <<"25.0">>) >>

ExpenditureFrame ==
    << ExpenditureRecord(<<"1">>, CollegeA, CodeA, Y1, <<"₹ 1,00,000">>, <<"₹ 500">>, <<"₹ 1,00,500">>),
       ExpenditureRecord(<<>>, <<>>, <<>>, AverageLabel, <<"₹ 1,00,000">>, <<"₹ 500">>, <<"₹ 1,00,500">>) >>

EmptyFrame == <<>>

ReturnedFrames ==
    {PlacementFrame, RepeatedPlacementFrame, ExamFrame, RatioFrame, ExpenditureFrame, EmptyFrame}

\* ---- one document of `for i, pdf_file in enumerate(pdf_files_to_process)`
IdleExtractor ==
    /\ extractor = "none"
    /\ pc = "idle"
    /\ pageNo = 0
    /\ tableNo = 0
    /\ page = NoPage
    /\ tablesLeft = 0
    /\ previous_page_text = <<>>
    /\ data = <<>>
    /\ table_found = FALSE
    /\ last = NoLast
    /\ outcomes = <<>>
    /\ capital_exp = EmptyDict
    /\ operational_exp = EmptyDict
    /\ output = <<>>
    /\ messages = <<>>
    /\ full_time_grads = EmptyDict
    /\ part_time_grads = EmptyDict
    /\ years = <<>>
    /\ sponsored_data = EmptyDict
    /\ consultancy_data = EmptyDict

InitReport ==
    /\ IdleExtractor
    /\ IdleBatch
    /\ IdleSheet
    /\ IdleDriver
    /\ IdleIdentity
    /\ IdleCurrency
    /\ report_pc = "extractors"
    /\ master_pos = 0
    /\ report_data = <<>>
    /\ returned = <<>>
    /\ final_report_df = <<>>
    /\ college_name = UnknownCollege
    /\ college_code = <<"PDF_1">>

\* one pass of `for name, func in master_extractors_list:` in which func returns df
RunExtractor(df) ==
    /\ report_pc = "extractors"
    /\ master_pos < MaxExtractors
    /\ master_pos' = master_pos + 1
    /\ returned' = Append(returned, [df |-> df, raised |-> FALSE])
    /\ LET named == df # <<>> /\ college_name = UnknownCollege /\ HasCol(df[1], "CollegeName")
           report_df == reformat_data_for_full_report(df)
       IN  /\ college_name' = IF named THEN ColValue(df[1], "CollegeName") ELSE college_name
           /\ college_code' = IF named THEN ColValue(df[1], "CollegeCode") ELSE college_code
           /\ report_data' = IF df # <<>> /\ report_df # <<>>
                             THEN Append(report_data, report_df) ELSE report_data
    /\ UNCHANGED <<report_pc, final_report_df, extract_vars, batch_vars, sheet_vars, driver_vars, identity_vars, currency_vars>>

\* one pass in which seek or func raises: `except Exception` reports it and goes on
ExtractorRaises ==
    /\ report_pc = "extractors"
    /\ master_pos < MaxExtractors
    /\ master_pos' = master_pos + 1
    /\ returned' = Append(returned, [df |-> EmptyFrame, raised |-> TRUE])
    /\ UNCHANGED <<report_pc, report_data, final_report_df, college_name, college_code,
                   extract_vars, batch_vars, sheet_vars, driver_vars, identity_vars, currency_vars>>

\* after the last extractor: concat, drop_duplicates, all_college_reports[key] = ...
CompileReport ==
    /\ report_pc = "extractors"
    /\ master_pos = MaxExtractors
    /\ report_pc' = "done"
    /\ final_report_df' = IF report_data # <<>> THEN drop_duplicates(concat(report_data))
                          ELSE final_report_df
    /\ all_college_reports' = IF report_data # <<>>
                              THEN all_college_reports \cup {report_key(college_name, college_code)}
                              ELSE all_college_reports
    /\ UNCHANGED <<master_pos, report_data, returned, college_name, college_code,
                   extract_vars, tab, batch_pc, pdf_links, link_pos, pdf_files_to_process, sheet_vars, driver_vars, identity_vars, currency_vars>>

NextReport ==
    \/ \E df \in ReturnedFrames : RunExtractor(df)
    \/ ExtractorRaises
    \/ CompileReport

SpecReport == InitReport /\ [][NextReport]_vars

\* ------------------------------------------------------------- Excel sheet names
MaxPad == 31           \* longest run of plain characters in a sheet name
SheetNameLimit == 31   \* the [:31] of the slice

\* the character class of re.sub(r'[\\/*?:"<>|]', "", sheet_name)
SheetForbidden == {"\\", "/", "*", "?", ":", "\"", "<", ">", "|"}

FirstChars(s, n) == SubSeq(s, 1, IF Len(s) < n THEN Len(s) ELSE n)

slice_then_sub(sheet) ==
    SelectSeq(FirstChars(sheet, SheetNameLimit), LAMBDA ch : ch \notin SheetForbidden)

\* re.sub(r'[\\/*?:"<>|]', "", sheet_name)[:31]
sanitize_sheet_name(sheet) ==
    FirstChars(SelectSeq(sheet, LAMBDA ch : ch \notin SheetForbidden), SheetNameLimit)

\* ---- sheet names, one character per token
SheetChars == SheetForbidden \cup {"a", " ", "["}

SheetHeads == {<<>>} \cup {<<c>> : c \in SheetChars} \cup {<<c, d>> : c \in SheetChars, d \in SheetChars}

Pad(n) == [i \in 1..n |-> "a"]

SheetTails == {<<>>, <<"/", "b">>}

SheetNames ==
    {h \o Pad(n) \o t : h \in SheetHeads, n \in {0} \cup (MaxPad - 3)..MaxPad, t \in SheetTails}

InitSheet ==
    /\ IdleExtractor
    /\ IdleReport
    /\ IdleBatch
    /\ IdleSheet
    /\ IdleDriver
    /\ IdleIdentity
    /\ IdleCurrency

\* one sheet of `for sheet_name, report_df in all_college_reports.items():` (full report)
WriteReportSheet(name) ==
    /\ tab = "none"
    /\ tab' = "full_report"
    /\ sheet_name' = name
    /\ safe_sheet_name' = sanitize_sheet_name(name)
    /\ UNCHANGED <<extract_vars, report_vars, batch_pc, pdf_links, link_pos,
                   pdf_files_to_process, all_college_reports,
                   driver_vars, identity_vars, currency_vars>>

\* one sheet of `for sheet_name, df in all_results.items():` (college specific tab)
WriteResultSheet(name) ==
    /\ tab = "none"
    /\ tab' = "college_specific"
    /\ sheet_name' = name
    /\ safe_sheet_name' = sanitize_sheet_name(name)
    /\ UNCHANGED <<extract_vars, report_vars, batch_pc, pdf_links, link_pos,
                   pdf_files_to_process, all_college_reports,
                   driver_vars, identity_vars, currency_vars>>

NextSheet ==
    \/ \E name \in SheetNames : WriteReportSheet(name)
    \/ \E name \in SheetNames : WriteResultSheet(name)

SpecSheet == InitSheet /\ [][NextSheet]_vars

\* ------------------------------------------------------------- batch of links (full_report_tab.py, homepage.py)
MaxLinks == 3      \* links found on the web page

\* what requests.get(link, timeout=15) meets: a document, an exception (time-out, refused
\* connection), a response with an error status, or bytes that pdfplumber cannot open
FetchKinds == {"pdf", "raises", "http_error", "not_pdf"}

Colleges == << <<"College A">>, <<"College B">>, <<"College C">>, <<"College D">> >>

Link(i, kind) == [id |-> i, fetch |-> kind]

\* the lists extract_pdf_links_from_url can return; no file is uploaded beside the URL
LinkLists ==
    UNION {{[i \in 1..n |-> Link(i, kinds[i])] : kinds \in [1..n -> FetchKinds]} : n \in 0..MaxLinks}

\* the document opens in every extractor and gives rows
gives_report(file) == file.fetch = "pdf"

key_of(file) == report_key(Colleges[file.id], CodeA)

InitBatch ==
    /\ IdleExtractor
    /\ IdleReport
    /\ IdleSheet
    /\ IdleDriver
    /\ IdleIdentity
    /\ IdleCurrency
    /\ tab \in {"full_report", "homepage"}
    /\ batch_pc = "download"
    /\ pdf_links \in LinkLists
    /\ link_pos = 0
    /\ pdf_files_to_process = <<>>
    /\ all_college_reports = {}

\* `if not pdf_files_to_process:` warn and return; else process each file
after_download(files) == IF files = <<>> THEN "done" ELSE "process"

\* full_report_tab: one pass of `for link in pdf_links:` inside the single try of line 74;
\* an exception of requests.get leaves the loop for the except of line 80
FetchFullReport ==
    /\ tab = "full_report"
    /\ batch_pc = "download"
    /\ link_pos < Len(pdf_links)
    /\ link_pos' = link_pos + 1
    /\ LET link == pdf_links[link_pos + 1]
       IN  IF link.fetch = "raises"
           THEN /\ batch_pc' = after_download(pdf_files_to_process)
                /\ UNCHANGED pdf_files_to_process
           ELSE /\ pdf_files_to_process' = Append(pdf_files_to_process, link)
                /\ UNCHANGED batch_pc
    /\ UNCHANGED <<tab, pdf_links, all_college_reports, extract_vars, report_vars, sheet_vars, driver_vars, identity_vars, currency_vars>>

\* homepage: one pass of `for link in pdf_links:` with its own try; raise_for_status turns
\* an error status into an exception, and the except of line 110 goes on with the next link
FetchHomepage ==
    /\ tab = "homepage"
    /\ batch_pc = "download"
    /\ link_pos < Len(pdf_links)
    /\ link_pos' = link_pos + 1
    /\ LET link == pdf_links[link_pos + 1]
       IN  pdf_files_to_process' = IF link.fetch \in {"raises", "http_error"}
                                   THEN pdf_files_to_process
                                   ELSE Append(pdf_files_to_process, link)
    /\ UNCHANGED <<tab, batch_pc, pdf_links, all_college_reports, extract_vars, report_vars, sheet_vars, driver_vars, identity_vars, currency_vars>>

\* the loop over the links has run to its end
EndDownload ==
    /\ batch_pc = "download"
    /\ link_pos = Len(pdf_links)
    /\ batch_pc' = after_download(pdf_files_to_process)
    /\ UNCHANGED <<tab, pdf_links, link_pos, pdf_files_to_process, all_college_reports,
                   extract_vars, report_vars, sheet_vars, driver_vars, identity_vars, currency_vars>>

\* `for i, pdf_file in enumerate(pdf_files_to_process):` every extractor guards its own
\* failure, so a file that does not open gives empty frames and no report
ProcessDocuments ==
    /\ batch_pc = "process"
    /\ batch_pc' = "done"
    /\ all_college_reports' =
          {key_of(pdf_files_to_process[i]) :
              i \in {j \in DOMAIN pdf_files_to_process : gives_report(pdf_files_to_process[j])}}
    /\ UNCHANGED <<tab, pdf_links, link_pos, pdf_files_to_process, extract_vars, report_vars, sheet_vars, driver_vars, identity_vars, currency_vars>>

NextBatch ==
    \/ FetchFullReport
    \/ FetchHomepage
    \/ EndDownload
    \/ ProcessDocuments

SpecBatch == InitBatch /\ [][NextBatch]_vars

\* ------------------------------------------------------------- the drivers (homepage.py, full_report_tab.py, college_specific_tab.py)
MaxDocs == 2       \* documents handed to a driver

MASTER_EXTRACTORS_LIST ==
    << "Program-wise Data", "Placement & Higher Studies", "University Exam Data",
       "Median Salary Data", "Ph.D. Graduated Data", "Student Gender Ratio",
       "Student Location", "Student Financial Support", "Project Funding",
       "Expenditure Data" >>

\* the list a driver is given: the head of the master list
extractors_list == SubSeq(MASTER_EXTRACTORS_LIST, 1, MaxExtractors)

Drivers == {"homepage", "full_report", "college_specific"}

\* what a call func(pdf_file) does: a DataFrame with rows, an empty DataFrame, an exception
CallOutcomes == {"data", "empty", "raises"}

\* a handle is at 0 when rewound and at EndOfFile once an extractor has read the document
EndOfFile == 1

seek_none(position) == position

\* pdf_file.seek(0)
seek0(position) == 0

Call(d, name, outcome) ==
    [doc |-> d, ext |-> name, at |-> seek0(handle[d]), outcome |-> outcome]

InitDriver ==
    /\ IdleExtractor
    /\ IdleReport
    /\ IdleBatch
    /\ IdleSheet
    /\ IdleIdentity
    /\ IdleCurrency
    /\ driver \in Drivers
    /\ driver_pc = IF driver = "college_specific" THEN "college_info" ELSE "loop"
    /\ n_docs \in (IF driver = "college_specific" THEN {1} ELSE 1..MaxDocs)
    /\ doc_pos = 1
    /\ ext_pos = 1
    /\ handle = [d \in 1..n_docs |-> 0]
    /\ calls = <<>>
    /\ results = <<>>
    /\ errors = <<>>

\* college_specific_tab.py: the "Program-wise Data" extractor is looked up in the list and
\* run once for the heading, before the loop and outside its try
ProgramDataRun(outcome) ==
    /\ driver_pc = "college_info"
    /\ \E k \in 1..Len(extractors_list) : extractors_list[k] = "Program-wise Data"
    /\ calls' = Append(calls, Call(1, "Program-wise Data", outcome))
    /\ handle' = [handle EXCEPT ![1] = EndOfFile]
    /\ driver_pc' = IF outcome = "raises" THEN "crashed" ELSE "loop"
    /\ UNCHANGED <<driver, n_docs, doc_pos, ext_pos, results, errors,
                   extract_vars, report_vars, batch_vars, sheet_vars, identity_vars, currency_vars>>

\* one turn of `for name, func in extractors_list` for the document at doc_pos
RunPair(outcome) ==
    /\ driver_pc = "loop"
    /\ doc_pos <= n_docs
    /\ LET name == extractors_list[ext_pos]
           last_ext == ext_pos = Len(extractors_list)
       IN /\ calls' = Append(calls, Call(doc_pos, name, outcome))
          /\ handle' = [handle EXCEPT ![doc_pos] = EndOfFile]
          /\ results' = IF outcome = "data"
                        THEN Append(results, [doc |-> doc_pos, ext |-> name])
                        ELSE results
          /\ errors' = IF outcome = "raises"
                       THEN Append(errors, [doc |-> doc_pos, ext |-> name])
                       ELSE errors
          /\ ext_pos' = IF last_ext THEN 1 ELSE ext_pos + 1
          /\ doc_pos' = IF last_ext THEN doc_pos + 1 ELSE doc_pos
          /\ driver_pc' = IF last_ext /\ doc_pos = n_docs THEN "done" ELSE "loop"
    /\ UNCHANGED <<driver, n_docs,
                   extract_vars, report_vars, batch_vars, sheet_vars, identity_vars, currency_vars>>

NextDriver ==
    \/ \E outcome \in CallOutcomes : ProgramDataRun(outcome)
    \/ \E outcome \in CallOutcomes : RunPair(outcome)

SpecDriver == InitDriver /\ [][NextDriver]_vars

\* ------------------------------------------------------------- document identity (the prologue of every extractor)
\* the codes in square brackets: one of the form IR-X-X-digits, one that is not
CodeTokens == {"IR-E-U-0456", "IR-2024-17"}

\* \[(IR-[^\]]+)\]: any bracketed text that starts with IR-
LooseCodes == CodeTokens

\* \[(IR-[A-Z]-[A-Z]-\d+)\]
StrictCodes == {"IR-E-U-0456"}

\* re.search(r"Institute Name:\s*(.*?)\s*\[", text): the text between the first
\* "Institute Name:" and the first "[" after it, on one line; None when there is none
name_search(text) ==
    LET starts == {i \in DOMAIN text :
                      /\ text[i] = "Institute Name:"
                      /\ \E j \in (i + 1)..Len(text) : text[j] = "["}
    IN  IF starts = {} THEN None
        ELSE LET i == CHOOSE i \in starts : \A i2 \in starts : i <= i2
                 j == CHOOSE j \in (i + 1)..Len(text) :
                          text[j] = "[" /\ \A j2 \in (i + 1)..(j - 1) : text[j2] # "["
                 between == Strip(SubSeq(text, i + 1, j - 1))
             IN  IF \E k \in DOMAIN between : between[k] = "\n" THEN None ELSE between

\* re.search of a bracketed code: the first "[", code, "]" of the text
code_search(text, codes) ==
    LET at == {i \in DOMAIN text :
                  i + 2 <= Len(text) /\ text[i] = "[" /\ text[i + 1] \in codes /\ text[i + 2] = "]"}
    IN  IF at = {} THEN None
        ELSE <<text[(CHOOSE i \in at : \A i2 \in at : i <= i2) + 1]>>

or_sentinel(match, sentinel) == IF match = None THEN <<sentinel>> ELSE match

\* app.py, and the copies in the placement, exam, salary and Ph.D modules
extract_college_info(text) ==
    [name |-> or_sentinel(name_search(text), "Not Found"),
     code |-> or_sentinel(code_search(text, LooseCodes), "Not Found")]

\* the searches written out in the ratio, location, support, funding and expenditure modules
inline_college_info(text) ==
    [name |-> or_sentinel(name_search(text), "Unknown"),
     code |-> or_sentinel(code_search(text, StrictCodes), "Unknown")]

UsesExtractCollegeInfo ==
    {"Program-wise Data", "Placement & Higher Studies", "University Exam Data",
     "Median Salary Data", "Ph.D. Graduated Data"}

\* the extractors with `if not first_page_text: first_page_text = ""`
GuardsFirstPageText == UsesExtractCollegeInfo \cup {"Expenditure Data"}

\* the identity an extractor gives its records; re.search(pattern, None) raises a
\* TypeError that the extractor's `except Exception` turns into an empty frame
college_info(name, text) ==
    IF text = None /\ name \notin GuardsFirstPageText
    THEN [ext |-> name, raised |-> TRUE, name |-> None, code |-> None]
    ELSE LET checked == IF text = None THEN <<>> ELSE text
             info == IF name \in UsesExtractCollegeInfo
                     THEN extract_college_info(checked) ELSE inline_college_info(checked)
         IN  [ext |-> name, raised |-> FALSE, name |-> info.name, code |-> info.code]

\* what pdf.pages[0].extract_text() gives: text with or without the institute line and the
\* code, no text as "" or, depending on the pdfplumber release, as None
NameParts == { <<>>, <<"Institute Name:", " ", "College A", " ">>, <<"Institute Name:", "College B">>,
               <<"Institute Name:", " ", "College C", "\n", "Campus", " ">> }
CodeParts == { <<>>, <<"[", "note", "]">> } \cup { <<"[", c, "]">> : c \in CodeTokens }
LeadParts == { <<>>, <<"India Rankings", "\n">> }

FirstPageTexts ==
    {None} \cup {lead \o name \o code : lead \in LeadParts, name \in NameParts, code \in CodeParts}

InitIdentity ==
    /\ IdleExtractor
    /\ IdleReport
    /\ IdleBatch
    /\ IdleSheet
    /\ IdleDriver
    /\ IdleCurrency
    /\ first_page_text \in FirstPageTexts
    /\ identity = <<>>

\* the next extractor of the master list reads the first page of the document
ReadCollegeInfo ==
    /\ Len(identity) < Len(MASTER_EXTRACTORS_LIST)
    /\ identity' = Append(identity,
                          college_info(MASTER_EXTRACTORS_LIST[Len(identity) + 1], first_page_text))
    /\ UNCHANGED <<first_page_text, extract_vars, report_vars, batch_vars, sheet_vars,
                   driver_vars, currency_vars>>

NextIdentity == ReadCollegeInfo

SpecIdentity == InitIdentity /\ [][NextIdentity]_vars

\* ------------------------------------------------------------- amounts (expenditure_tab.py)
MaxSmallAmount == 120    \* every amount up to this one is formatted

RECURSIVE PowerOfTen(_)
PowerOfTen(k) == IF k = 0 THEN 1 ELSE 10 * PowerOfTen(k - 1)

\* the small amounts, the amounts around every power of ten up to ten digits, and
\* amounts of six to nine digits with distinct digits
Amounts ==
    (0..MaxSmallAmount)
    \cup UNION {{PowerOfTen(k) - 1, PowerOfTen(k), PowerOfTen(k) + 1} : k \in 3..9}
    \cup {123456, 1234567, 12345678, 123456789, 907050}

InitCurrency ==
    /\ IdleExtractor
    /\ IdleReport
    /\ IdleBatch
    /\ IdleSheet
    /\ IdleDriver
    /\ IdleIdentity
    /\ amount \in Amounts
    /\ formatted = <<>>

\* a cell of the expenditure rows: format_indian_currency(cap)
FormatAmount ==
    /\ formatted = <<>>
    /\ formatted' = format_indian_currency(Number(amount))
    /\ UNCHANGED <<amount, extract_vars, report_vars, batch_vars, sheet_vars, driver_vars, identity_vars>>

NextCurrency == FormatAmount

SpecCurrency == InitCurrency /\ [][NextCurrency]_vars

\* ------------------------------------------------------------- properties
Abs(x) == IF x < 0 THEN 0 - x ELSE x

\* p hundredths of a percent is n / d * 100 rounded to two decimals
IsPct(p, n, d) == IF d > 0 THEN 2 * Abs(p * d - 10000 * n) <= d ELSE p = 0

\* digits with thousands separators, blanks around them allowed
PlainCount(cell) == cell # None /\ IsDigit(Strip(RemoveTok(cell, ",")))
CountValue(cell) == DigitsValue(Strip(RemoveTok(cell, ",")))

ColumnOf(h, c) == CHOOSE j \in DOMAIN h : h[j] = c

RawHeader == last.table.data[1]
OneRow == last.table.data[2]
OneRowTable(h) == last.valid /\ Len(last.table.data) = 2 /\ RawHeader = h /\ Len(OneRow) = Len(h)

Classified == last.valid /\ last.r.outcome \notin {"none", "empty", "short", "nosig"}

TableResult(e, t, p, prev_text) ==
    CASE e = "placement" -> placement_table(t, p, prev_text)
      [] e = "exam" -> exam_table(t, p, prev_text)
      [] e = "salary" -> salary_table(t, p, prev_text)
      [] e = "ratio" -> ratio_table(t)
      [] e = "location" -> location_table(t)
      [] e = "support" -> support_table(t)

\* C1: every derived percentage is round(numerator / denominator * 100, 2) when
\* the denominator is positive and exactly 0.0 when it is 0, and a row with a
\* zero denominator is emitted like any other row.
C1_Ratios ==
    /\ \A i \in DOMAIN data :
        /\ extractor = "placement" =>
              /\ IsPct(data[i].PlacementPct, data[i].Placed, data[i].Graduated)
              /\ IsPct(data[i].HigherStudiesPct, data[i].HigherStudies, data[i].Graduated)
        /\ extractor = "exam" => IsPct(data[i].Percentage, data[i].Graduated, data[i].TotalAdmitted)
        /\ extractor = "ratio" => IsPct(data[i].FemaleRatio, data[i].FemaleStudents, data[i].TotalStudents)
        /\ extractor = "location" =>
              /\ IsPct(data[i].OutsideStatePct, data[i].OutsideState, data[i].TotalStudents)
              /\ IsPct(data[i].OutsideCountryPct, data[i].OutsideCountry, data[i].TotalStudents)
    /\ \A h \in {FullHeader, NoLateralHeader} :
        (/\ extractor = "placement" /\ OneRowTable(h) /\ last.r.outcome = "rows"
         /\ \A c \in {GRAD, PLACED, HS} : PlainCount(OneRow[ColumnOf(h, c)]))
        => /\ Len(last.r.recs) = 1
           /\ last.r.recs[1].Graduated = CountValue(OneRow[ColumnOf(h, GRAD)])
           /\ last.r.recs[1].Placed = CountValue(OneRow[ColumnOf(h, PLACED)])
           /\ last.r.recs[1].HigherStudies = CountValue(OneRow[ColumnOf(h, HS)])
    /\ (/\ extractor = "ratio" /\ OneRowTable(StrengthHeader) /\ last.r.outcome = "rows"
        /\ program_row(OneRow) = "proceed"
        /\ PlainCount(OneRow[3]) /\ PlainCount(OneRow[4]))
       => /\ Len(last.r.recs) = 1
          /\ last.r.recs[1].FemaleStudents = CountValue(OneRow[3])
          /\ last.r.recs[1].TotalStudents = CountValue(OneRow[4])

\* C1 witness: the placement records hold 50 of 200 as 25.0 and a row with no graduates as 0.0
C1_Witness ==
    /\ extractor = "placement"
    /\ \E i \in DOMAIN data : data[i].Placed = 50 /\ data[i].Graduated = 200 /\ data[i].PlacementPct = 2500
    /\ \E i \in DOMAIN data : data[i].Graduated = 0 /\ data[i].PlacementPct = 0 /\ data[i].HigherStudiesPct = 0

\* the label lines of the last table's page that lie strictly above the table
LabelLinesAbove ==
    {i \in DOMAIN last.page.text :
        last.page.text[i].y < last.table.y /\ last.page.text[i].s \in LabelStrings}

LabelsBefore == SelectSeq(last.prev, LAMBDA s : s \in LabelStrings)

Resolved == last.valid /\ last.r.called

\* C2: when labels stand above the table on its page, the resolver returns the
\* one closest to the table, whatever the previous page holds and wherever the
\* table stands.
C2_ClosestLabelAbove ==
    (Resolved /\ LabelLinesAbove # {})
    => \E i \in LabelLinesAbove :
          /\ last.r.program_header = last.page.text[i].s
          /\ \A j \in LabelLinesAbove : last.page.text[j].y <= last.page.text[i].y

\* C2 witness: two different labels above the table and a label on the previous
\* page; the lower label of the page was returned
C2_Witness ==
    /\ Resolved
    /\ Cardinality(LabelLinesAbove) = 2
    /\ last.page.text[1].s # last.page.text[2].s
    /\ LabelsBefore # <<>>
    /\ last.r.program_header = last.page.text[2].s
    /\ Len(last.r.recs) = 1

\* C3: with no label above the table, the previous page's text is searched
\* exactly when the table stands above y = 150; the last label of that text is
\* then returned, and at or beyond 150 the previous page's labels are not used.
C3_PreviousPageOnlyNearTop ==
    (Resolved /\ LabelLinesAbove = {})
    => IF last.table.y < 150 /\ LabelsBefore # <<>>
       THEN last.r.program_header = LabelsBefore[Len(LabelsBefore)]
       ELSE last.r.program_header \notin LabelStrings

\* C3 witness: a table at 149 without a label above it took the last of two
\* different labels of the previous page
C3_Witness ==
    /\ Resolved
    /\ LabelLinesAbove = {}
    /\ last.table.y = 149
    /\ Len(LabelsBefore) = 2
    /\ LabelsBefore[1] # LabelsBefore[2]
    /\ last.r.program_header = LabelsBefore[2]

\* a table for which neither the page above it nor the previous page gives a label
NoLabelFor ==
    /\ Resolved
    /\ LabelLinesAbove = {}
    /\ (last.table.y >= 150 \/ LabelsBefore = <<>>)

\* C4: a label standing at or below the table is not returned; without a label
\* the resolver returns "Unknown Program" and raises nothing, and the extractor
\* skips that table only: its records so far are kept and the loop goes on.
C4_UnknownSkipsOneTable ==
    /\ [](NoLabelFor => /\ last.r.program_header = "Unknown Program"
                        /\ last.r.outcome = "noprog"
                        /\ ~last.r.raised)
    /\ [][(tableNo' = tableNo + 1 /\ last'.r.called /\ last'.r.program_header = "Unknown Program")
          => /\ data' = data
             /\ pc' = "tables"
             /\ tablesLeft' = tablesLeft - 1]_vars

\* C4 witness: a table with a label only at its own position was skipped and
\* the next table of the document gave a record
C4_Witness ==
    /\ outcomes = <<"noprog", "rows">>
    /\ Len(data) = 1
    /\ pageNo = 1
    /\ \E i \in DOMAIN page.text : page.text[i].y = 100 /\ page.text[i].s \in LabelStrings

\* ------------------------------------------------------------- classification
\* the header strings by which each header-based extractor knows its table
SignatureOf(e) ==
    CASE e = "placement" -> <<GRAD, PLACED, HS>>
      [] e = "exam" -> <<ADM, GRAD>>
      [] e = "ratio" -> <<MALE, FEMALE, TOTAL>>
      [] e = "location" -> <<TOTAL, OUTSTATE, OUTCOUNTRY>>
      [] e = "support" -> <<EB, SC, GOVFEE, INSTFEE, PVTFEE, NOFEE>>

HeaderBased == {"placement", "exam", "ratio", "location", "support"}

\* line breaks collapsed to spaces and the cell trimmed
Trimmed(cell) == IF Truthy(cell) THEN Strip(Replace(cell, "\n", " ")) ELSE <<>>

\* line breaks replaced by spaces, nothing else
Unbroken(cell) == IF Truthy(cell) THEN Replace(cell, "\n", " ") ELSE cell

HasRows == last.valid /\ Len(last.table.data) >= 2

WithHeader(t, h) == [t EXCEPT !.data = [i \in DOMAIN t.data |-> IF i = 1 THEN h ELSE t.data[i]]]

AcceptedRatioRows ==
    {i \in 2..Len(last.table.data) :
        LET row == last.table.data[i]
        IN  /\ Len(row) = Len(RawHeader)
            /\ program_row(row) = "proceed"
            /\ PlainCount(row[ColumnOf(RawHeader, FEMALE)])
            /\ PlainCount(row[ColumnOf(RawHeader, TOTAL)])}

\* C8 as claimed: the table with header Program, Total Students, No. of Female
\* Students and the row UG [4 Years], 1000, 450 yields one record with ratio 45.0.
C8_ScenarioWithoutMaleColumn ==
    (extractor = "ratio" /\ last.valid /\ last.table = ScenarioTable)
    => /\ Len(last.r.recs) = 1
       /\ last.r.recs[1].FemaleRatio = 4500

\* C8 amended: the gender-ratio table is known by three headers, No. of Male
\* Students included.  The scenario's table yields no record; with the male
\* column added it yields exactly one record, with ratio 45.0; and every
\* accepted UG/PG row of a matching table with plain total T > 0 and female
\* count F yields one record with ratio round(F / T * 100, 2).
C8_GenderRatio ==
    /\ (extractor = "ratio" /\ last.valid /\ last.table = ScenarioTable) => last.r.recs = <<>>
    /\ (extractor = "ratio" /\ last.valid /\ last.table = ScenarioTableWithMale)
       => /\ Len(last.r.recs) = 1
          /\ last.r.recs[1].TotalStudents = 1000
          /\ last.r.recs[1].FemaleStudents = 450
          /\ last.r.recs[1].FemaleRatio = 4500
    /\ (extractor = "ratio" /\ last.valid /\ last.r.outcome = "rows"
        /\ \A c \in {MALE, FEMALE, TOTAL} : \E j \in DOMAIN RawHeader : RawHeader[j] = c)
       => /\ Len(last.r.recs) = Cardinality(AcceptedRatioRows)
          /\ \A i \in AcceptedRatioRows :
                \E k \in DOMAIN last.r.recs :
                   LET rec == last.r.recs[k]
                       row == last.table.data[i]
                   IN  /\ rec.FemaleStudents = CountValue(row[ColumnOf(RawHeader, FEMALE)])
                       /\ rec.TotalStudents = CountValue(row[ColumnOf(RawHeader, TOTAL)])
                       /\ IsPct(rec.FemaleRatio, rec.FemaleStudents, rec.TotalStudents)

\* C8 witness: the scenario's table with the male column gave its one record
C8_Witness ==
    /\ extractor = "ratio"
    /\ last.valid
    /\ last.table = ScenarioTableWithMale
    /\ Len(data) = 1
    /\ data[1].FemaleRatio = 4500

\* C9 as claimed: a count cell of digits and thousands separators counts as the
\* integer without the separators, an empty cell or a bare dash as absent; so
\* for the university-exam table TotalAdmitted is the admitted count plus the
\* lateral-entry count, the latter 0 when absent.
C9_CountsWithSeparators ==
    (/\ extractor = "exam" /\ OneRowTable(FullHeader) /\ last.r.outcome = "rows"
     /\ PlainCount(OneRow[2]) /\ PlainCount(OneRow[6])
     /\ (PlainCount(OneRow[4]) \/ OneRow[4] \in {<<>>, <<"-">>}))
    => /\ Len(last.r.recs) = 1
       /\ last.r.recs[1].Graduated = CountValue(OneRow[6])
       /\ last.r.recs[1].TotalAdmitted =
             CountValue(OneRow[2]) + (IF PlainCount(OneRow[4]) THEN CountValue(OneRow[4]) ELSE 0)

\* the kinds whose extractor takes the table for its own
KindsTaking(t, p, prev_text) ==
    {e \in ContextExtractors \cup StrengthExtractors :
        TableResult(e, t, p, prev_text).outcome \notin {"empty", "short", "nosig"}}

NamesBoth(table) ==
    /\ \E i \in DOMAIN table : table[i] # <<>> /\ Contains(table[i][1], <<"Capital Expenditure">>)
    /\ \E i \in DOMAIN table : table[i] # <<>> /\ Contains(table[i][1], <<"Operational Expenditure">>)

RECURSIVE UpToBracket(_)
UpToBracket(cell) ==
    IF cell = <<>> \/ Head(cell) = "(" THEN <<>>
    ELSE <<Head(cell)>> \o UpToBracket(Tail(cell))

KeptDigits(cell) == SelectSeq(UpToBracket(cell), LAMBDA c : c \in Digits)
HasAmount(cell) == Truthy(cell) /\ KeptDigits(cell) # <<>>
Amount(cell) == DigitsValue(KeptDigits(cell))

RECURSIVE SumOver(_, _)
SumOver(S, f) ==
    IF S = {} THEN 0
    ELSE LET x == CHOOSE x \in S : TRUE IN f[x] + SumOver(S \ {x}, f)

ExpCategory == IF is_capital_table(last.table.data) THEN "capital" ELSE "operational"
ExpBefore == IF ExpCategory = "capital" THEN last.dicts[1] ELSE last.dicts[2]
ExpAfter == IF ExpCategory = "capital" THEN capital_exp ELSE operational_exp
ExpKeys == IF ExpCategory = "capital" THEN capital_keys ELSE operational_keys
ExpHeader == year_header(last.table.data)
ExpYears == {ExpHeader[j] : j \in {k \in DOMAIN ExpHeader : YearLike(ExpHeader[k])}}

\* the rows of the category holding an amount under the year
AmountRows(y) ==
    LET col == CHOOSE j \in DOMAIN ExpHeader : ExpHeader[j] = y /\ \A k \in 1..(j - 1) : ExpHeader[k] # y
    IN  {i \in DOMAIN last.table.data :
            /\ title_matches(last.table.data[i], ExpKeys)
            /\ col <= Len(last.table.data[i])
            /\ HasAmount(last.table.data[i][col])}

YearAmount(y) ==
    LET col == CHOOSE j \in DOMAIN ExpHeader : ExpHeader[j] = y /\ \A k \in 1..(j - 1) : ExpHeader[k] # y
        times == Cardinality({j \in DOMAIN ExpHeader : ExpHeader[j] = y})
    IN  times * SumOver(AmountRows(y), [i \in AmountRows(y) |-> Amount(last.table.data[i][col])])

\* C10: in an expenditure table the amount of a currency cell is the integer
\* formed by the digits that stand before the first "(" (everything from the
\* bracket on is discarded, every other non-digit removed): "₹1,234 (approx)"
\* counts as 1234.  A cell with no digit before the bracket adds nothing.
C10_CurrencyNormalized ==
    (extractor = "expenditure" /\ last.valid /\ last.r.outcome = "rows")
    => /\ \A y \in ExpYears :
             IF AmountRows(y) = {}
             THEN /\ (y \in DOMAIN ExpAfter) <=> (y \in DOMAIN ExpBefore)
                  /\ y \in DOMAIN ExpAfter => ExpAfter[y] = ExpBefore[y]
             ELSE /\ y \in DOMAIN ExpAfter
                  /\ ExpAfter[y] = Get(ExpBefore, y, 0) + YearAmount(y)
       /\ \A y \in (DOMAIN ExpAfter) \ ExpYears : y \in DOMAIN ExpBefore /\ ExpAfter[y] = ExpBefore[y]
       /\ \A i \in DOMAIN last.table.data :
             (/\ title_matches(last.table.data[i], ExpKeys)
              /\ Len(last.table.data[i]) >= 2
              /\ last.table.data[i][2] = Approx
              /\ ExpHeader[2] = Y1 /\ ExpHeader[3] # Y1
              /\ Cardinality({k \in DOMAIN last.table.data : title_matches(last.table.data[k], ExpKeys)}) = 1)
             => ExpAfter[Y1] = Get(ExpBefore, Y1, 0) + 1234

\* C10 witness: a cell with digits inside its bracketed note was counted
C10_Witness ==
    /\ extractor = "expenditure"
    /\ last.valid
    /\ last.r.outcome = "rows"
    /\ \E i \in DOMAIN last.table.data :
          /\ title_matches(last.table.data[i], capital_keys)
          /\ Len(last.table.data[i]) >= 2
          /\ last.table.data[i][2] = <<"1", "2", "3", "4", " ", "(", "2", " ", "instalments", ")">>
    /\ last.dicts[1] = EmptyDict
    /\ Y1 \in DOMAIN capital_exp
    /\ capital_exp[Y1] = 1234

\* the rows of the last table that, standing alone under its header, give a record
RowsGivingRecord ==
    {i \in 2..Len(last.table.data) :
        Len(TableResult(extractor,
                        [last.table EXCEPT !.data = <<last.table.data[1], last.table.data[i]>>],
                        last.page, last.prev).recs) = 1}

\* C11 as claimed: a cell that fails normalization (None, empty, dash,
\* non-numeric) or a malformed row costs at most the record of its own row:
\* the records of the earlier tables stay and every other row of the table
\* still gives its record.
C11_FailureLocal ==
    (last.valid /\ extractor \in ContextExtractors \cup StrengthExtractors)
    => Len(data) = last.before + Cardinality(RowsGivingRecord)

\* the header names Academic Year twice, the admitted and the graduating column
ExamFieldsPresent(h) ==
    /\ \E i, j \in DOMAIN h : i < j /\ h[i] = AY /\ h[j] = AY
    /\ \E j \in DOMAIN h : h[j] = ADM
    /\ \E j \in DOMAIN h : h[j] = GRAD

ExamHeader == [j \in DOMAIN RawHeader |-> Unbroken(RawHeader[j])]

\* C12: in the university-exam extractor a table whose header lacks a required
\* column (Academic Year, a second Academic Year, the admitted column, the
\* graduating column) is skipped on its own: it gives no record, raises
\* nothing, and the records gathered so far stay, so the tables after it are
\* processed.  Without the optional lateral-entry column the rows are still
\* emitted and TotalAdmitted is the admitted count alone.
C12_ExamFieldMapping ==
    /\ []((extractor = "exam" /\ HasRows /\ ~ExamFieldsPresent(ExamHeader))
          => /\ last.r.recs = <<>>
             /\ ~last.r.raised
             /\ Len(data) = last.before
             /\ last.r.outcome \in {"nosig", "noprog", "nofield"})
    /\ []((/\ extractor = "exam" /\ OneRowTable(NoLateralHeader) /\ last.r.outcome = "rows"
           /\ PlainCount(OneRow[2]) /\ PlainCount(OneRow[4]))
          => /\ Len(last.r.recs) = 1
             /\ last.r.recs[1].TotalAdmitted = CountValue(OneRow[2])
             /\ last.r.recs[1].Graduated = CountValue(OneRow[4])
             /\ Len(data) = last.before + 1)
    /\ [][(extractor = "exam" /\ last'.valid /\ last' # last /\ ~last'.r.raised)
            => (\A i \in DOMAIN data : i \in DOMAIN data' /\ data'[i] = data[i]) /\ pc' = "tables"]_vars

\* C12 witness: a table with a single Academic Year column was skipped and the
\* table after it, which has no lateral-entry column, gave its record
C12_Witness ==
    /\ extractor = "exam"
    /\ outcomes = <<"nofield", "rows">>
    /\ RawHeader = NoLateralHeader
    /\ Len(data) = 1
    /\ data[1].TotalAdmitted = 200

ExpOutput == output
ExpPeriodKeys == (DOMAIN capital_exp) \cup (DOMAIN operational_exp)
ExpReturned == extractor = "expenditure" /\ pc = "done"

\* what the last table alone adds to a category
ExpContribution(category) ==
    expenditure_after(EmptyDict, category,
                      IF category = "capital" THEN capital_keys ELSE operational_keys, last.table.data)

\* d is the mapping before with the contribution added key by key
MergedByKey(d, before, contribution) ==
    /\ DOMAIN d = (DOMAIN before) \cup (DOMAIN contribution)
    /\ \A y \in DOMAIN d : d[y] = Get(before, y, 0) + Get(contribution, y, 0)

\* one period row per key, a missing category shown as 0, then the Average row
PeriodRowsThenAverage ==
    /\ Len(ExpOutput) = Cardinality(ExpPeriodKeys) + 1
    /\ \A y \in ExpPeriodKeys :
          /\ Cardinality({i \in 1..(Len(ExpOutput) - 1) : ExpOutput[i].AcademicYear = y}) = 1
          /\ \A i \in 1..(Len(ExpOutput) - 1) :
                ExpOutput[i].AcademicYear = y
                => /\ ExpOutput[i].Capital = format_indian_currency(Number(Get(capital_exp, y, 0)))
                   /\ ExpOutput[i].Operational = format_indian_currency(Number(Get(operational_exp, y, 0)))
    /\ ExpOutput[Len(ExpOutput)].AcademicYear = AverageLabel
    /\ \A i \in 1..(Len(ExpOutput) - 1) : ExpOutput[i].AcademicYear # AverageLabel

ExpScenario ==
    /\ ExpReturned
    /\ tableNo = 2
    /\ last.dicts = <<[y \in {Y2} |-> 100], EmptyDict>>
    /\ last.table.data = ScenarioOperational

\* C13 as claimed: after any sequence of pages and tables the mappings hold
\* per period key the sum over all tables, and the output is one period row per
\* key of either mapping followed by exactly one Average row.
C13_PeriodRowsAndAverageAlways ==
    /\ (extractor = "expenditure" /\ last.valid)
       => /\ MergedByKey(capital_exp, last.dicts[1], ExpContribution("capital"))
          /\ MergedByKey(operational_exp, last.dicts[2], ExpContribution("operational"))
    /\ ExpReturned => PeriodRowsThenAverage

\* C13 amended: the mappings accumulate by period key across tables; when some
\* period key is present the output is one period row per key of either
\* mapping (a category without a value for the period shown as 0) followed by
\* exactly one Average row; when no period key was found the output is empty,
\* without an Average row.  The tables keyed 2021-22 (capital) and 2022-23
\* (operational) give two period rows and the Average row.
C13_MergeByPeriodKey ==
    /\ (extractor = "expenditure" /\ last.valid)
       => /\ MergedByKey(capital_exp, last.dicts[1], ExpContribution("capital"))
          /\ MergedByKey(operational_exp, last.dicts[2], ExpContribution("operational"))
    /\ (ExpReturned /\ ExpPeriodKeys # {}) => PeriodRowsThenAverage
    /\ (ExpReturned /\ ExpPeriodKeys = {}) => ExpOutput = <<>>
    /\ ExpScenario
       => /\ Len(ExpOutput) = 3
          /\ ExpOutput[1].AcademicYear = Y1 /\ ExpOutput[1].Capital = <<"₹", " ", "0">>
          /\ ExpOutput[1].Operational = <<"₹", " ", "3", "0", "1">>
          /\ ExpOutput[2].AcademicYear = Y2 /\ ExpOutput[2].Capital = <<"₹", " ", "1", "0", "0">>
          /\ ExpOutput[2].Operational = <<"₹", " ", "0">>
          /\ ExpOutput[3].AcademicYear = AverageLabel

\* C13 witness: the two single-row tables were merged into two period rows and
\* the Average row
C13_Witness ==
    /\ ExpScenario
    /\ Len(ExpOutput) = 3
    /\ operational_exp = [y \in {Y1} |-> 301]

\* the period keys of the returned series, in output order
SeriesKeys ==
    CASE extractor = "expenditure" ->
           [i \in 1..(Len(output) - 1) |-> output[i].AcademicYear]
      [] extractor = "funding" -> [i \in DOMAIN output |-> output[i].FinancialYear]
      [] extractor = "phd" -> IF output = <<>> THEN <<>> ELSE output[1].columns

StrictlyDescending(keys) ==
    /\ \A i, j \in DOMAIN keys : i # j => keys[i] # keys[j]
    /\ \A i \in 1..(Len(keys) - 1) : StrLess(keys[i + 1], keys[i])

\* C14: in the series returned by the expenditure, project-funding and Ph.D
\* extractors the period keys are pairwise distinct and in strictly descending
\* order; the Average row of the expenditure series, when there is one, is the
\* last row and holds the label **Average** where the period key would be.
C14_PeriodKeysDescending ==
    (pc = "done" /\ extractor \in {"expenditure", "funding", "phd"})
    => /\ StrictlyDescending(SeriesKeys)
       /\ \A i \in DOMAIN SeriesKeys : SeriesKeys[i] # AverageLabel
       /\ extractor = "expenditure"
          => /\ \A i \in DOMAIN output : output[i].AcademicYear = AverageLabel => i = Len(output)
             /\ \A i \in DOMAIN output : i < Len(output) => output[i].AcademicYear \in ExpPeriodKeys
       /\ extractor = "phd"
          => \A i \in DOMAIN output : output[i].columns = SeriesKeys
       /\ (extractor = "funding" /\ ~last.r.raised)
          => Len(output) = Cardinality((DOMAIN sponsored_data) \cup (DOMAIN consultancy_data))

\* C14 witness: a funding table whose header lists 2021-22 before 2022-23 gave
\* the rows for 2022-23 and 2021-22, in that order
C14_Witness ==
    /\ extractor = "funding"
    /\ pc = "done"
    /\ tableNo = 1
    /\ Len(last.table.data) >= 2
    /\ last.table.data[1] = <<FY, Y2, Y1>>
    /\ Len(output) = 2
    /\ output[1].FinancialYear = Y1
    /\ output[2].FinancialYear = Y2

\* the number a formatted amount shows
ShownValue(str) == DigitsValue(SelectSeq(str, LAMBDA c : c \in Digits))

AverageRow == output[Len(output)]
HasAverageRow == ExpReturned /\ output # <<>>

\* shown is the mean of the values of d
ShowsMean(shown, d) ==
    IF DOMAIN d = {} THEN shown = 0
    ELSE shown * Cardinality(DOMAIN d) = DictSum(d)

\* shown is the mean of the values of d with its fraction cut off
ShowsWholePartOfMean(shown, d) ==
    IF DOMAIN d = {} THEN shown = 0
    ELSE /\ shown * Cardinality(DOMAIN d) <= DictSum(d)
         /\ DictSum(d) < (shown + 1) * Cardinality(DOMAIN d)

SalaryReturned == extractor = "salary" /\ pc = "done" /\ ~last.r.raised

ProgramsOf(d) == {d[i].ProgramName : i \in DOMAIN d}

\* the rows of the output come program by program in ascending order, the
\* later periods first
InSalaryOrder(rows) ==
    \A i \in 1..(Len(rows) - 1) :
        \/ ProgRank(rows[i].ProgramName) < ProgRank(rows[i + 1].ProgramName)
        \/ /\ rows[i].ProgramName = rows[i + 1].ProgramName
           /\ ~StrLess(rows[i].AcademicYear, rows[i + 1].AcademicYear)

\* hundredths h is the mean of the program's salaries, rounded to two decimals
IsMeanOf(h, d, prog) ==
    LET mine == {i \in DOMAIN d : d[i].ProgramName = prog}
        total == SumOver(mine, [i \in mine |-> d[i].MedianSalary])
    IN  2 * Abs(h * Cardinality(mine) - 100 * total) <= Cardinality(mine)

\* the amount in hundredths that a formatted average shows
ShownHundredths(str) == DigitsValue(SelectSeq(str, LAMBDA c : c \in Digits))

\* C16: the median-salary output is ordered by program ascending, then period
\* descending; in every program group the first row, and only it, carries the
\* average, which is the mean of all the median salaries of that program (to
\* two decimals), whatever the order in which the tables were met; the other
\* rows of the group have a blank average.
C16_AverageOnFirstRowOfGroup ==
    SalaryReturned
    => /\ Len(output) = Len(data)
       /\ InSalaryOrder(output)
       /\ \A prog \in ProgramsOf(data) :
             LET group == {i \in DOMAIN output : output[i].ProgramName = prog}
                 first == CHOOSE i \in group : \A j \in group : i <= j
             IN  /\ Cardinality(group) = CountOf(data, prog)
                 /\ output[first].AverageMedianSalary # <<>>
                 /\ IsMeanOf(ShownHundredths(output[first].AverageMedianSalary), data, prog)
                 /\ \A i \in group \ {first} : output[i].AverageMedianSalary = <<>>

\* C16 witness: a program whose three periods were met out of order and a
\* second program met after it came out ordered, one average per group
C16_Witness ==
    /\ SalaryReturned
    /\ Len(data) = 4
    /\ Len(output) = 4
    /\ data[1].ProgramName = "UG-4" /\ data[1].AcademicYear = Y3
    /\ data[2].ProgramName = "UG-4" /\ data[2].AcademicYear = Y1
    /\ data[3].ProgramName = "UG-4" /\ data[3].AcademicYear = Y2
    /\ data[4].ProgramName = "PG-2"
    /\ output[1].ProgramName = "PG-2" /\ output[1].AverageMedianSalary # <<>>
    /\ output[2].AcademicYear = Y1 /\ output[2].AverageMedianSalary = <<"₹", "7", "0", "0", ".", "3", "3">>
    /\ output[3].AcademicYear = Y2 /\ output[3].AverageMedianSalary = <<>>
    /\ output[4].AcademicYear = Y3 /\ output[4].AverageMedianSalary = <<>>

\* ------------------------------------------------------------- C17, C18: the compiled report
\* every (Parameter, Value) pair of the document in processing order: extractors in
\* master-list order, then row order, then column order
RECURSIVE PairsFrom(_)
PairsFrom(k) ==
    IF k > Len(returned) THEN <<>>
    ELSE reformat_data_for_full_report(returned[k].df) \o PairsFrom(k + 1)

ProcessingOrder == PairsFrom(1)

FirstOccurrence(p) ==
    CHOOSE i \in DOMAIN ProcessingOrder :
        /\ ProcessingOrder[i].Parameter = p
        /\ \A j \in 1..(i - 1) : ProcessingOrder[j].Parameter # p

Compiled == report_pc = "done" /\ final_report_df # <<>>

\* C17: in the compiled report of a document no two rows have the same Parameter, every
\* Parameter that the extractors produced is in the report, and its Value is the one of
\* its first occurrence in processing order
C17_FirstOccurrenceKept ==
    report_pc = "done" =>
        /\ \A i, j \in DOMAIN final_report_df :
              i # j => final_report_df[i].Parameter # final_report_df[j].Parameter
        /\ \A k \in DOMAIN ProcessingOrder :
              \E i \in DOMAIN final_report_df :
                  final_report_df[i].Parameter = ProcessingOrder[k].Parameter
        /\ \A i \in DOMAIN final_report_df :
              /\ \E k \in DOMAIN ProcessingOrder :
                    ProcessingOrder[k].Parameter = final_report_df[i].Parameter
              /\ final_report_df[i].Value
                    = ProcessingOrder[FirstOccurrence(final_report_df[i].Parameter)].Value

\* a Parameter produced twice with two values, and the report holds the first one
C17_Witness ==
    /\ Compiled
    /\ \E i, j \in DOMAIN ProcessingOrder :
          /\ i < j
          /\ ProcessingOrder[i].Parameter = ProcessingOrder[j].Parameter
          /\ ProcessingOrder[i].Value # ProcessingOrder[j].Value
          /\ \A h \in 1..(i - 1) : ProcessingOrder[h].Parameter # ProcessingOrder[i].Parameter
          /\ \E r \in DOMAIN final_report_df :
                final_report_df[r] = ProcessingOrder[i]

\* the columns that name a record (serial number, institution, programme, period); every
\* other column is a field whose value the report carries
NamingColumns ==
    {"SNo", "S.No", "CollegeName", "CollegeCode", "ProgramName", "Program",
     "Academic Year", "Financial Year", "GraduationYear"}

\* the fields of the records the extractors returned: extractor k, record i, column c
Fields ==
    {f \in [k : DOMAIN returned, i : 1..2, c : 1..10] :
        /\ f.i \in DOMAIN returned[f.k].df
        /\ f.c \in DOMAIN returned[f.k].df[f.i]
        /\ returned[f.k].df[f.i][f.c].col \notin NamingColumns}

FieldRecord(f) == returned[f.k].df[f.i]
FieldValue(f) == FieldRecord(f)[f.c].value
\* the name under which the field is filed: its column and the (context, period) suffix
FieldName(f) == parameter_name(FieldRecord(f)[f.c].col, context(FieldRecord(f)))

Recovered(f) ==
    \E r \in DOMAIN final_report_df :
        final_report_df[r].Parameter = FieldName(f) /\ final_report_df[r].Value = FieldValue(f)

Earlier(g, f) ==
    \/ g.k < f.k
    \/ g.k = f.k /\ g.i < f.i
    \/ g.k = f.k /\ g.i = f.i /\ g.c < f.c

SheetWritten == tab \in {"full_report", "college_specific"}

\* the name with every one of the nine characters deleted
WithoutForbidden(name) ==
    SelectSeq(name, LAMBDA ch : ch \notin {"\\", "/", "*", "?", ":", "\"", "<", ">", "|"})

\* C19: the sanitized sheet name holds none of the characters \ / * ? : " < > |, is at
\* most 31 characters long, is the first 31 characters of the name with those characters
\* deleted, and sanitizing it again returns it unchanged
C19_SheetNameSanitized ==
    SheetWritten =>
        /\ \A i \in DOMAIN safe_sheet_name :
              safe_sheet_name[i] \notin {"\\", "/", "*", "?", ":", "\"", "<", ">", "|"}
        /\ Len(safe_sheet_name) <= 31
        /\ LET kept == WithoutForbidden(sheet_name)
           IN  /\ Len(safe_sheet_name) = (IF Len(kept) < 31 THEN Len(kept) ELSE 31)
               /\ \A i \in DOMAIN safe_sheet_name : safe_sheet_name[i] = kept[i]
        /\ sanitize_sheet_name(safe_sheet_name) = safe_sheet_name

\* a name with a character to delete among its first 31 and more than 31 characters left
C19_Witness ==
    /\ SheetWritten
    /\ \E i \in 1..31 : i \in DOMAIN sheet_name /\ sheet_name[i] \in SheetForbidden
    /\ Len(WithoutForbidden(sheet_name)) > 31
    /\ Len(safe_sheet_name) = 31
    /\ safe_sheet_name # SubSeq(sheet_name, 1, 31)

\* ------------------------------------------------------------- C20: failures in a batch
BatchDone == batch_pc = "done"

HasReport(i) == key_of(pdf_links[i]) \in all_college_reports

\* C20: when the batch is done, every link of the list whose document can be obtained and
\* opened has its report, whatever happened to the other links, before it or after it
C20_FailureIsolated ==
    BatchDone => \A i \in DOMAIN pdf_links : gives_report(pdf_links[i]) => HasReport(i)

\* ------------------------------------------------------------- C21: no table of the kind
\* no table the extractor met had its signature
NoSignatureMet == \A i \in DOMAIN outcomes : outcomes[i] \in {"empty", "short", "nosig"}

RawNumber(v) == v # <<>> /\ \A k \in DOMAIN v : v[k] \in Digits

\* C22: the amounts in the records an extractor returns are raw numbers: the expenditure
\* amounts and the median salary carry no currency sign and no digit grouping
C22_StoredValuesRaw ==
    pc = "done" =>
        /\ extractor = "expenditure" =>
              \A i \in DOMAIN output :
                  /\ RawNumber(output[i].Capital)
                  /\ RawNumber(output[i].Operational)
                  /\ RawNumber(output[i].Total)
        /\ extractor = "salary" =>
              \A i \in DOMAIN output : RawNumber(output[i].MedianSalary)

\* ------------------------------------------------------------- C23: Ph.D totals
\* the sum of the values a row shows in its year columns
RECURSIVE SumShown(_, _)
SumShown(cols, values) ==
    IF cols = <<>> THEN 0 ELSE values[Head(cols)] + SumShown(Tail(cols), values)

PhdReturned == extractor = "phd" /\ pc = "done" /\ output # <<>>

\* C23: in the Ph.D output the Total of the Full Time row and of the Part Time row is the
\* sum of the values the row shows in its year columns, and the Total row is Full Time
\* plus Part Time in every year column and in the Total column
C23_PhdTotals ==
    PhdReturned =>
        /\ \A r \in {1, 2} : output[r].Total = SumShown(output[r].columns, output[r].values)
        /\ \A y \in DOMAIN output[3].values :
              output[3].values[y] = output[1].values[y] + output[2].values[y]
        /\ output[3].Total = output[1].Total + output[2].Total

\* ------------------------------------------------------------- C24: the drivers
\* the (document, extractor) pairs in document order, then list order
PairsOfDoc(d) == [k \in 1..Len(extractors_list) |-> [doc |-> d, ext |-> extractors_list[k]]]

RECURSIVE PairsUpTo(_)
PairsUpTo(d) == IF d = 0 THEN <<>> ELSE PairsUpTo(d - 1) \o PairsOfDoc(d)

PairOf(call) == [doc |-> call.doc, ext |-> call.ext]

PairsCalled == [k \in 1..Len(calls) |-> PairOf(calls[k])]

IsPrefix(s, t) == Len(s) <= Len(t) /\ s = SubSeq(t, 1, Len(s))

DriverEnded == driver_pc \in {"done", "crashed"}

TimesCalled(pair) == Cardinality({k \in 1..Len(calls) : PairOf(calls[k]) = pair})

\* C24 as stated: when a driver has ended, its calls are the (document, extractor) pairs,
\* each once, in document order then list order, each on a rewound handle, whatever the
\* calls before did; the results are the pairs whose call returned rows
C24_EveryPairOnce ==
    (driver # "none" /\ DriverEnded) =>
        /\ PairsCalled = PairsUpTo(n_docs)
        /\ \A k \in 1..Len(calls) : calls[k].at = 0

\* the run of "Program-wise Data" that college_specific_tab makes before its loop
CollegeInfoRun == IF driver = "college_specific"
                  THEN << [doc |-> 1, ext |-> "Program-wise Data"] >>
                  ELSE <<>>

LoopCalls == SubSeq(calls, Len(CollegeInfoRun) + 1, Len(calls))

WithOutcome(cs, outcome) == SelectSeq(cs, LAMBDA c : c.outcome = outcome)

PairsIn(cs) == [k \in 1..Len(cs) |-> PairOf(cs[k])]

\* C24, amended: the calls of a driver are, in order, the pairs in document order then list
\* order, after one more run of "Program-wise Data" in the college-specific view; every call
\* is made on a rewound handle; the results are the pairs whose call in the loop returned
\* rows and the reported errors the pairs whose call in the loop raised; a driver ends
\* with all its calls made unless the run before the loop of the college-specific view raised
C24_DriverRunsPairsInOrder ==
    driver # "none" =>
        /\ IsPrefix(PairsCalled, CollegeInfoRun \o PairsUpTo(n_docs))
        /\ \A k \in 1..Len(calls) : calls[k].at = 0
        /\ driver_pc # "college_info" =>
              /\ results = PairsIn(WithOutcome(LoopCalls, "data"))
              /\ errors = PairsIn(WithOutcome(LoopCalls, "raises"))
        /\ driver_pc = "done" => PairsCalled = CollegeInfoRun \o PairsUpTo(n_docs)
        /\ driver_pc = "crashed" =>
              /\ driver = "college_specific"
              /\ Len(calls) = 1
              /\ calls[1].outcome = "raises"

\* a homepage run over two documents ends with a raised call followed by calls with rows
C24_Witness ==
    /\ driver = "homepage"
    /\ driver_pc = "done"
    /\ n_docs = MaxDocs
    /\ calls[1].outcome = "raises"
    /\ calls[2].outcome = "data"
    /\ calls[Len(calls)].outcome = "data"
    /\ Len(results) = Len(calls) - 1

\* ------------------------------------------------------------- C25: the previous page's text
\* `for page in pdf.pages` reaches a page that holds tables; `page` is still the page before
ReachesPageWithTables == pc = "pages" /\ pc' = "tables"

\* a table of the page is handed to the context resolver
HandsTable == pc = "tables" /\ tableNo' = tableNo + 1

PreviousPageTextStep ==
    extractor \in ContextExtractors =>
        /\ ReachesPageWithTables =>
              previous_page_text' = IF pageNo = 0 THEN <<>> ELSE ExtractText(page)
        /\ HandsTable =>
              /\ last'.prev = previous_page_text
              /\ last'.page = page
              /\ previous_page_text' = previous_page_text

PhdAccepted(row, title) ==
    LET full == Contains(Strip(row[1]), <<"Full Time">>)
    IN  IF title = "Full Time" THEN full ELSE ~full /\ Contains(Strip(row[1]), <<"Part Time">>)

LastAccepted(t, i, Accepted(_)) ==
    Accepted(t[i]) /\ \A i2 \in (i + 1)..Len(t) : ~Accepted(t[i2])

\* the number in the cell of the row in column j, 0 for a cell without a number
PhdContent(row, j) == phd_cell(row, j - 1)

PhdColumnsAligned ==
    (extractor = "phd" /\ last.valid /\ last.r.outcome = "rows") =>
        LET t == last.table.data
            h == phd_header_row(t)
        IN  \A title \in {"Full Time", "Part Time"} : \A i \in DOMAIN t :
                LastAccepted(t, i, LAMBDA row : PhdAccepted(row, title)) =>
                    \A j \in DOMAIN h : YearLike(h[j]) =>
                        \E j2 \in DOMAIN h :
                            /\ h[j2] = h[j]
                            /\ Get(IF title = "Full Time" THEN full_time_grads ELSE part_time_grads,
                                   h[j], 0) = PhdContent(t[i], j2)

ExpenditureContent(row, j) ==
    IF j > Len(row) \/ ~Truthy(row[j]) \/ amount_digits(row[j]) = <<>> THEN 0
    ELSE DigitsValue(amount_digits(row[j]))

\* the first expenditure table of a document, with one accepted row
ExpenditureColumnsAligned ==
    (extractor = "expenditure" /\ last.valid /\ last.r.outcome = "rows"
        /\ last.dicts = <<EmptyDict, EmptyDict>>) =>
        LET t == last.table.data
            h == year_header(t)
            capital == "capital" \in expenditure_targets(t)
            keys == IF capital THEN capital_keys ELSE operational_keys
            d == IF capital THEN capital_exp ELSE operational_exp
        IN  \A i \in DOMAIN t :
                (title_matches(t[i], keys) /\ \A i2 \in DOMAIN t : i2 # i => ~title_matches(t[i2], keys)) =>
                    \A j \in DOMAIN h : YearLike(h[j]) =>
                        \E j2 \in DOMAIN h :
                            /\ h[j2] = h[j]
                            /\ Get(d, h[j], 0) = ExpenditureContent(t[i], j2)

FundingContent(row, j) ==
    IF j > Len(row) \/ ~Truthy(row[j]) THEN None ELSE Strip(row[j])

\* the first funding table of a document that is of one kind
FundingColumnsAligned ==
    (extractor = "funding" /\ last.valid /\ last.r.outcome = "rows"
        /\ last.period[4] = EmptyDict /\ last.period[5] = EmptyDict
        /\ ~(is_sponsored_table(last.table.data) /\ is_consultancy_table(last.table.data))) =>
        LET t == last.table.data
            h == t[1]
            sponsored == is_sponsored_table(t)
            d == IF sponsored THEN sponsored_data ELSE consultancy_data
            field(row) == funding_field(Strip(Replace(row[1], "\n", " ")),
                                        IF sponsored THEN "sponsored_projects" ELSE "consultancy_projects",
                                        IF sponsored THEN "sponsored_amount" ELSE "consultancy_amount")
        IN  \A i \in 2..Len(t) : \A j \in 2..Len(h) :
                (/\ field(t[i]) # ""
                 /\ \A i2 \in (i + 1)..Len(t) : field(t[i2]) # field(t[i])
                 /\ Truthy(h[j]) /\ Strip(h[j]) # <<>>
                 /\ \A j2 \in 2..Len(h) : j2 # j => (~Truthy(h[j2]) \/ Strip(h[j2]) # Strip(h[j]))
                 /\ ParseInt(RemoveTok(FundingContent(t[i], j), ",")).ok) =>
                    Get(Get(d, Strip(h[j]), EmptyDict), field(t[i]), NotFound)
                        = ParseInt(RemoveTok(FundingContent(t[i], j), ",")).val

\* C26: in the expenditure, Ph.D graduated and project-funding extractors, the value
\* recorded for an accepted row under a period key of the header row is the content of the
\* row's cell in the column of that header cell, also when the period columns do not
\* start right after the title column, when cells are blank or when a label stands twice
C26_ColumnsAligned ==
    /\ PhdColumnsAligned
    /\ ExpenditureColumnsAligned
    /\ FundingColumnsAligned

\* ------------------------------------------------------------- C27: the first Ph.D table
\* a table with the signature and a year row has been processed
PhdTableProcessed == extractor = "phd" /\ \E k \in DOMAIN outcomes : outcomes[k] = "rows"

PhdStopsStep ==
    PhdTableProcessed => UNCHANGED <<tableNo, years, full_time_grads, part_time_grads>>

\* C27: once the first table with "No. of Ph.D students graduated" has been processed, no
\* later table of the document, on the same page or on a later one, is examined or changes
\* the years or the full-time and part-time counts
C27_PhdStopsAtFirstTable == [][PhdStopsStep]_vars

\* the part that holds: the table that is processed is the last one examined on its page
PhdStopsOnPageStep ==
    (extractor = "phd" /\ tableNo' = tableNo + 1 /\ last'.r.outcome = "rows") => tablesLeft' = 0

\* a table of a later page has replaced the years of the first table
PhdLaterTableReplacesYears ==
    /\ extractor = "phd"
    /\ pageNo = 2
    /\ outcomes = <<"rows", "rows">>
    /\ years = <<Y3>>
    /\ Y1 \in DOMAIN full_time_grads

PhdStopsOnThePage == [][PhdStopsOnPageStep]_vars

\* ------------------------------------------------------------- C28: one identity per document
AllRead == Len(identity) = Len(MASTER_EXTRACTORS_LIST)

\* C28: whatever the text of the first page (with or without the identity pattern, empty
\* or missing), every extractor gives its records one and the same (name, code) pair, and
\* none of them is left without records by the missing identity
C28_OneIdentity ==
    AllRead =>
        /\ \A k \in DOMAIN identity : ~identity[k].raised
        /\ \A k, m \in DOMAIN identity :
              identity[k].name = identity[m].name /\ identity[k].code = identity[m].code

\* the identity line as the reports have it: the extractors agree
IdentityOfStandardLine ==
    (AllRead /\ name_search(first_page_text) # None
        /\ code_search(first_page_text, StrictCodes) # None) => C28_OneIdentity

\* the identity is complete and all extractors have read it
IdentityStandardLineRead ==
    /\ AllRead
    /\ first_page_text # None
    /\ name_search(first_page_text) = <<"College A">>
    /\ code_search(first_page_text, StrictCodes) # None

\* ------------------------------------------------------------- C29: the graduation cohort's year
AcademicYearColumns(h) == {j \in DOMAIN h : h[j] = AY}

\* the column the cohort's figures start at: graduating, else the median salary
CohortAnchor(e, h) ==
    IF e = "salary" THEN FirstContaining(h, <<"Median salary">>) + 1 ELSE ListIndex(h, GRAD, 0) + 1

\* the nearest "Academic Year" column before the anchor; 0 when there is none
CohortYearColumn(e, h) ==
    LET before == {j \in AcademicYearColumns(h) : j < CohortAnchor(e, h)}
    IN  IF before = {} THEN 0 ELSE CHOOSE j \in before : \A j2 \in before : j2 <= j

PeriodOf(e, rec) == IF e = "salary" THEN rec.AcademicYear ELSE rec.GraduationYear

ResultOf(e, entry) ==
    CASE e = "placement" -> placement_table(entry.table, entry.page, entry.prev)
      [] e = "exam" -> exam_table(entry.table, entry.page, entry.prev)
      [] e = "salary" -> salary_table(entry.table, entry.page, entry.prev)

\* the header of the table examined last
LastHeader == IF last.table.data = <<>> THEN <<>> ELSE header_row(last.table.data[1])

\* every row of the table gave a record
AllRowsRecorded(r, table_data) == r.outcome = "rows" /\ Len(r.recs) = Len(table_data) - 1

\* C29: for a header with two or more "Academic Year" columns, the period of each record of
\* the placement, median-salary and university-exam extractors is the row's cell in the
\* nearest "Academic Year" column before the graduating, placed and median-salary columns,
\* and the three extractors give the records of one table row the same period
C29_GraduationPeriod ==
    (/\ extractor \in ContextExtractors
     /\ last.valid
     /\ Cardinality(AcademicYearColumns(LastHeader)) >= 2) =>
        LET table_data == last.table.data
            h == LastHeader
        IN  /\ AllRowsRecorded(last.r, table_data) =>
                  /\ CohortYearColumn(extractor, h) # 0
                  /\ \A i \in DOMAIN last.r.recs :
                        PeriodOf(extractor, last.r.recs[i])
                            = table_data[i + 1][CohortYearColumn(extractor, h)]
            /\ \A e1, e2 \in ContextExtractors :
                  (AllRowsRecorded(ResultOf(e1, last), table_data)
                      /\ AllRowsRecorded(ResultOf(e2, last), table_data)) =>
                      \A i \in 1..(Len(table_data) - 1) :
                          PeriodOf(e1, ResultOf(e1, last).recs[i])
                              = PeriodOf(e2, ResultOf(e2, last).recs[i])

\* the same for headers with exactly two "Academic Year" columns, the first in column 1
C29_TwoYearColumns ==
    (/\ extractor \in ContextExtractors
     /\ last.valid
     /\ Cardinality(AcademicYearColumns(LastHeader)) = 2
     /\ LastHeader[1] = AY
     /\ AllRowsRecorded(last.r, last.table.data)) =>
        /\ CohortYearColumn(extractor, LastHeader) # 0
        /\ \A i \in DOMAIN last.r.recs :
              PeriodOf(extractor, last.r.recs[i])
                  = last.table.data[i + 1][CohortYearColumn(extractor, LastHeader)]

\* ------------------------------------------------------------- C30: amounts in Indian grouping
\* the export's replace('[^0-9]', '', regex=True)
strip_non_digits(s) == SelectSeq(s, LAMBDA c : c \in Digits)

\* the text behind the sign and the blank
AmountBody(s) == SubSeq(s, 3, Len(s))

\* the groups between the commas, in order
RECURSIVE GroupsOf(_, _)
GroupsOf(s, group) ==
    IF s = <<>> THEN <<group>>
    ELSE IF Head(s) = "," THEN <<group>> \o GroupsOf(Tail(s), <<>>)
    ELSE GroupsOf(Tail(s), Append(group, Head(s)))

IndianGroups(groups) ==
    LET n == Len(groups)
    IN  /\ \A k \in 1..n : \A i \in DOMAIN groups[k] : groups[k][i] \in Digits
        /\ n >= 2 => Len(groups[n]) = 3
        /\ \A k \in 2..(n - 1) : Len(groups[k]) = 2
        /\ Len(groups[1]) >= 1
        /\ Len(groups[1]) <= (IF n = 1 THEN 3 ELSE 2)

\* C30: for an integer n >= 0, the digits of format_indian_currency(n) are the decimal
\* digits of n, in order, and they stand in groups separated by commas: a last group of
\* three digits, groups of two before it, and a leading group that may be shorter (a
\* number of up to three digits is its leading group alone)
C30_LosslessIndianGrouping ==
    formatted # <<>> =>
        /\ strip_non_digits(formatted) = IntStr(amount)
        /\ SubSeq(formatted, 1, 2) = <<"₹", " ">>
        /\ IndianGroups(GroupsOf(AmountBody(formatted), <<>>))

\* 123456 has been formatted as 1,23,456
C30_Witness ==
    /\ amount = 123456
    /\ formatted = <<"₹", " ", "1", ",", "2", "3", ",", "4", "5", "6">>

====
